---- MODULE Spec2Model ----
(***************************************************************************)
(* A model of the document and tunnel core of the editor:                  *)
(*   src/src/tramp.rs   hop parsing, string interning, the connection pool *)
(*   src/src/buffer.rs  Buffer open / write / text edits, the hex codec    *)
(* Strings are sequences of one-character strings, bytes are 0..255.       *)
(***************************************************************************)
EXTENDS Integers, Sequences, FiniteSets, TLC

(***************************************************************************)
(* Bounds of the model                                                     *)
(***************************************************************************)
\* longest hop segment, counted in ':'-separated tokens
MaxTokens == 4
\* segments parsed in one run against the shared string pool
MaxParses == 2
\* concurrent callers of the connection pool
NumCallers == 2
\* shells the pool may spawn in one run (a further spawn fails)
MaxSpawn == 2
\* longest byte sequence given to the hex codec
MaxHexLen == 33
\* size of the buffer Rope::from_reader hands to HexReader::read
ReadBufLen == 7
\* longest rope the text edits may build
MaxRope == 3
\* longest text given to one text edit
MaxText == 1
\* text edits in one run
MaxEdits == 2
\* files created at the path in one run (a further create fails)
MaxInodes == 1
\* longest edited hex text given to a save
MaxHexText == 7
\* longest file given to one open
MaxFileLen == 3
\* paths given to Buffer::open in one run against the shared string pool
MaxOpens == 2
\* largest digit position given to nth_digit_base10 / nth_digit_base16
MaxNth == 64
\* characters the model evaluates in one run of write_to's decoding loop (the
\* loop is one; the runs only keep the evaluation shallow)
DecodeRun == 12

(***************************************************************************)
(* Strings                                                                 *)
(***************************************************************************)
Colon == ":"
Pipe == "|"

\* the text after the first i characters
Drop(s, i) == SubSeq(s, i + 1, Len(s))

\* str::split(sep): the pieces between separators; "" splits to one empty piece
RECURSIVE Split(_, _)
Split(s, sep) ==
    IF \E i \in 1..Len(s) : s[i] = sep
    THEN LET i == CHOOSE i \in 1..Len(s) :
                      s[i] = sep /\ \A j \in 1..(i - 1) : s[j] # sep
         IN  <<SubSeq(s, 1, i - 1)>> \o Split(Drop(s, i), sep)
    ELSE <<s>>

\* the pieces joined again with sep between them
RECURSIVE Join(_, _)
Join(pieces, sep) ==
    IF Len(pieces) = 0 THEN <<>>
    ELSE IF Len(pieces) = 1 THEN pieces[1]
    ELSE pieces[1] \o <<sep>> \o Join(Tail(pieces), sep)

\* str::find(needle): the 0-based index of the first occurrence, -1 for None
Find(hay, needle) ==
    LET hits == {i \in 0..(Len(hay) - Len(needle)) :
                    SubSeq(hay, i + 1, i + Len(needle)) = needle}
    IN  IF hits = {} THEN -1
        ELSE CHOOSE i \in hits : \A j \in hits : i <= j

Digits == <<"0", "1", "2", "3", "4", "5", "6", "7", "8", "9">>
IsDigit(ch) == \E d \in 1..10 : Digits[d] = ch
DigitVal(ch) == (CHOOSE d \in 1..10 : Digits[d] = ch) - 1

RECURSIVE DecimalValue(_)
DecimalValue(s) ==
    IF Len(s) = 0 THEN 0
    ELSE DecimalValue(SubSeq(s, 1, Len(s) - 1)) * 10 + DigitVal(s[Len(s)])

U16Max == 65535

\* str::parse::<u16>(): an optional '+', then one or more decimal digits, no
\* overflow.  Longer digit strings than 6 cannot fit and are not evaluated.
ParseU16(s) ==
    LET body == IF Len(s) > 0 /\ s[1] = "+" THEN Tail(s) ELSE s
    IN  IF Len(body) = 0 \/ \E i \in 1..Len(body) : ~IsDigit(body[i])
        THEN [ok |-> FALSE, val |-> 0]
        ELSE IF Len(body) > 6 \/ DecimalValue(body) > U16Max
        THEN [ok |-> FALSE, val |-> 0]
        ELSE [ok |-> TRUE, val |-> DecimalValue(body)]

(***************************************************************************)
(* tramp.rs: Str and Part                                                  *)
(***************************************************************************)
\* Str::new: the handle of s in the pool, appending s when it is not found
StrNew(pool, s) ==
    LET at == Find(pool, s)
    IN  IF at >= 0
        THEN [str |-> [start |-> at, len |-> Len(s)], pool |-> pool]
        ELSE [str |-> [start |-> Len(pool), len |-> Len(s)], pool |-> pool \o s]

\* Str::as_str
AsStr(str, pool) == SubSeq(pool, str.start + 1, str.start + str.len)

T_ssh == <<"s", "s", "h">>
T_sudo == <<"s", "u", "d", "o">>
T_docker == <<"d", "o", "c", "k", "e", "r">>
T_bash == <<"b", "a", "s", "h">>
T_askpw == <<"a", "s", "k", "p", "w">>

DefaultSshPort == 22

NoPart == [kind |-> "None"]

\* Part::parse: the hop of one segment, with the pool as the call leaves it
\* (the destination is interned before the port is parsed)
PartParse(pool, s) ==
    LET args == Split(s, Colon)
        proto_id == args[1]
    IN  IF proto_id = T_ssh THEN
            IF Len(args) < 2
            THEN [ok |-> FALSE, part |-> NoPart, pool |-> pool,
                  err |-> "missing ssh destination"]
            ELSE LET d == StrNew(pool, args[2])
                     p == IF Len(args) >= 3 THEN ParseU16(args[3])
                          ELSE [ok |-> TRUE, val |-> DefaultSshPort]
                 IN  IF ~p.ok
                     THEN [ok |-> FALSE, part |-> NoPart, pool |-> d.pool,
                           err |-> "invalid port"]
                     ELSE [ok |-> TRUE,
                           part |-> [kind |-> "Ssh", destination |-> d.str,
                                     port |-> p.val],
                           pool |-> d.pool, err |-> ""]
        ELSE IF proto_id = T_sudo THEN
            [ok |-> TRUE, part |-> [kind |-> "Sudo"], pool |-> pool, err |-> ""]
        ELSE IF proto_id = T_docker THEN
            IF Len(args) < 2
            THEN [ok |-> FALSE, part |-> NoPart, pool |-> pool,
                  err |-> "missing docker container ID"]
            ELSE LET d == StrNew(pool, args[2])
                 IN  [ok |-> TRUE,
                      part |-> [kind |-> "Docker", container |-> d.str],
                      pool |-> d.pool, err |-> ""]
        ELSE IF proto_id = T_bash THEN
            [ok |-> TRUE, part |-> [kind |-> "Bash"], pool |-> pool, err |-> ""]
        ELSE [ok |-> FALSE, part |-> NoPart, pool |-> pool,
              err |-> "unknown protocol"]

\* the chain a '|'-separated chain string parses to, stopping at the first
\* segment in error (ConnectionPool::connect's collect over Part::parse)
RECURSIVE ParseParts(_, _)
ParseParts(pool, segs) ==
    IF Len(segs) = 0 THEN [ok |-> TRUE, parts |-> <<>>, pool |-> pool]
    ELSE LET r == PartParse(pool, segs[1])
         IN  IF ~r.ok THEN [ok |-> FALSE, parts |-> <<>>, pool |-> r.pool]
             ELSE LET rest == ParseParts(r.pool, Tail(segs))
                  IN  [ok |-> rest.ok,
                       parts |-> IF rest.ok THEN <<r.part>> \o rest.parts ELSE <<>>,
                       pool |-> rest.pool]

ParseChain(pool, s) == ParseParts(pool, Split(s, Pipe))

(***************************************************************************)
(* Text: UTF-8 and the rope's index conversions (ropey, default features)  *)
(***************************************************************************)
\* bytes of the UTF-8 encoding of one code point
Utf8Len(cp) == IF cp < 128 THEN 1 ELSE IF cp < 2048 THEN 2 ELSE IF cp < 65536 THEN 3 ELSE 4

Utf8EncodeChar(cp) ==
    IF cp < 128 THEN <<cp>>
    ELSE IF cp < 2048 THEN <<192 + (cp \div 64), 128 + (cp % 64)>>
    ELSE IF cp < 65536
    THEN <<224 + (cp \div 4096), 128 + ((cp \div 64) % 64), 128 + (cp % 64)>>
    ELSE <<240 + (cp \div 262144), 128 + ((cp \div 4096) % 64),
           128 + ((cp \div 64) % 64), 128 + (cp % 64)>>

\* Rope::write_to / str::as_bytes: the UTF-8 bytes of a text
RECURSIVE Utf8Encode(_)
Utf8Encode(chars) ==
    IF Len(chars) = 0 THEN <<>>
    ELSE Utf8EncodeChar(Head(chars)) \o Utf8Encode(Tail(chars))

IsCont(b) == b >= 128 /\ b <= 191

\* std::str::from_utf8: the code points, or not ok when the bytes are not UTF-8
RECURSIVE Utf8Decode(_)
Utf8Decode(bytes) ==
    IF Len(bytes) = 0 THEN [ok |-> TRUE, chars |-> <<>>]
    ELSE
    LET b == bytes[1]
        n == IF b < 128 THEN 1
             ELSE IF b >= 194 /\ b <= 223 THEN 2
             ELSE IF b >= 224 /\ b <= 239 THEN 3
             ELSE IF b >= 240 /\ b <= 244 THEN 4
             ELSE 0
        wellFormed ==
            /\ n > 0
            /\ Len(bytes) >= n
            /\ \A i \in 2..n : IsCont(bytes[i])
            /\ (b = 224 => bytes[2] >= 160)
            /\ (b = 237 => bytes[2] <= 159)
            /\ (b = 240 => bytes[2] >= 144)
            /\ (b = 244 => bytes[2] <= 143)
        cp == IF n = 1 THEN b
              ELSE IF n = 2 THEN (b - 192) * 64 + (bytes[2] - 128)
              ELSE IF n = 3
              THEN (b - 224) * 4096 + (bytes[2] - 128) * 64 + (bytes[3] - 128)
              ELSE (b - 240) * 262144 + (bytes[2] - 128) * 4096
                       + (bytes[3] - 128) * 64 + (bytes[4] - 128)
    IN  IF ~wellFormed THEN [ok |-> FALSE, chars |-> <<>>]
        ELSE LET rest == Utf8Decode(Drop(bytes, n))
             IN  [ok |-> rest.ok,
                  chars |-> IF rest.ok THEN <<cp>> \o rest.chars ELSE <<>>]

\* Rope::len_bytes
RECURSIVE LenBytes(_)
LenBytes(chars) ==
    IF Len(chars) = 0 THEN 0 ELSE Utf8Len(Head(chars)) + LenBytes(Tail(chars))

\* Rope::char_to_byte for char_idx <= len_chars (it panics beyond)
CharToByte(chars, char_idx) == LenBytes(SubSeq(chars, 1, char_idx))

\* a line break ends with the i-th character: LF, VT, FF, NEL, LS, PS, or a
\* CR that no LF follows (CRLF is one break, ending with its LF)
IsBreakEnd(chars, i) ==
    \/ chars[i] \in {10, 11, 12, 133, 8232, 8233}
    \/ chars[i] = 13 /\ (i = Len(chars) \/ chars[i + 1] # 10)

\* Rope::char_to_line for char_idx <= len_chars
CharToLine(chars, char_idx) ==
    Cardinality({i \in 1..char_idx : IsBreakEnd(chars, i)})

\* Rope::len_lines
LenLines(chars) == CharToLine(chars, Len(chars)) + 1

\* Rope::line_to_char for line_idx <= len_lines (it panics beyond)
LineToChar(chars, line_idx) ==
    IF line_idx = 0 THEN 0
    ELSE IF line_idx >= LenLines(chars) THEN Len(chars)
    ELSE CHOOSE i \in 1..Len(chars) :
            IsBreakEnd(chars, i) /\ CharToLine(chars, i) = line_idx

\* Rope::byte_to_line for byte_idx <= len_bytes
ByteToLine(chars, byte_idx) ==
    Cardinality({i \in 1..Len(chars) :
                    IsBreakEnd(chars, i) /\ CharToByte(chars, i) <= byte_idx})

\* Rope::line_to_byte
LineToByte(chars, line_idx) == CharToByte(chars, LineToChar(chars, line_idx))

\* Rope::remove(start..end) and Rope::insert(at, text), in characters
RopeRemove(chars, start, end) == SubSeq(chars, 1, start) \o Drop(chars, end)
RopeInsert(chars, at, text) == SubSeq(chars, 1, at) \o text \o Drop(chars, at)

\* char::is_whitespace (the Unicode White_Space property)
IsWhitespace(cp) ==
    \/ cp \in 9..13
    \/ cp \in {32, 133, 160, 5760, 8232, 8233, 8239, 8287, 12288}
    \/ cp \in 8192..8202

\* char::to_digit(16), -1 for None
ToDigit16(cp) ==
    IF cp >= 48 /\ cp <= 57 THEN cp - 48
    ELSE IF cp >= 97 /\ cp <= 102 THEN cp - 97 + 10
    ELSE IF cp >= 65 /\ cp <= 70 THEN cp - 65 + 10
    ELSE -1

(***************************************************************************)
(* buffer.rs: the hex codec                                                *)
(***************************************************************************)
F == "First"
S == "Second"
P == "Space"

\* FORMAT: eight bytes, a gap, eight bytes, the line end
FORMAT ==
    <<F, S, P,  F, S, P,  F, S, P,  F, S, P,  F, S, P,  F, S, P,  F, S, P,  F, S, P,
      P,
      P, F, S,  P, F, S,  P, F, S,  P, F, S,  P, F, S,  P, F, S,  P, F, S,  P, F, S,
      "Next">>

\* mutant: the letters start at 'a' + hex
HexToAscii_NoOffset(hex) == IF hex < 10 THEN 48 + hex ELSE 97 + hex

\* HexReader::hex_to_ascii
HexToAscii(hex) == IF hex < 10 THEN 48 + hex ELSE 97 + hex - 10

NoByte == -1

\* HexReader { contents, col, state } as read_hex builds it
NewHexReader(bytes) == [contents |-> bytes, col |-> 0, state |-> NoByte]

\* HexReader::read into a buffer of n bytes: what is written and the reader
\* afterwards.  Every output character first needs a byte from get(): the
\* call returns what it has once the input ran out.
RECURSIVE HexReaderRead(_, _)
HexReaderRead(r, n) ==
    IF n = 0 \/ (r.state = NoByte /\ Len(r.contents) = 0)
    THEN [out |-> <<>>, reader |-> r]
    ELSE
    LET byte == IF r.state # NoByte THEN r.state ELSE Head(r.contents)
        left == IF r.state # NoByte THEN r.contents ELSE Tail(r.contents)
        ctl == FORMAT[r.col + 1]
        outb == IF ctl = "First" THEN HexToAscii(byte \div 16)
                ELSE IF ctl = "Second" THEN HexToAscii(byte % 16)
                ELSE IF ctl = "Space" THEN 32
                ELSE 10
        next == [contents |-> left,
                 col |-> IF ctl = "Next" THEN 0 ELSE r.col + 1,
                 state |-> IF ctl = "Second" THEN NoByte ELSE byte]
        rest == HexReaderRead(next, n - 1)
    IN  [out |-> <<outb>> \o rest.out, reader |-> rest.reader]

\* Rope::from_reader: read calls until one returns 0
RECURSIVE RopeFromReader(_)
RopeFromReader(r) ==
    LET got == HexReaderRead(r, ReadBufLen)
    IN  IF Len(got.out) = 0 THEN <<>>
        ELSE got.out \o RopeFromReader(got.reader)

\* Buffer::read_hex: the rope of the hex dump
ReadHex(bytes) == RopeFromReader(NewHexReader(bytes))

\* mutant: the position is reported as the loop counts it, from zero
HexDecodeChar_ZeroBased(chars, i, st) ==
    IF IsWhitespace(chars[i]) THEN st
    ELSE IF ToDigit16(chars[i]) = -1
    THEN [ok |-> FALSE, row |-> CharToLine(chars, i - 1),
          col |-> (i - 1) - LineToChar(chars, CharToLine(chars, i - 1)),
          buf |-> <<>>, state |-> NoByte]
    ELSE IF st.state # NoByte
    THEN [st EXCEPT !.buf = Append(@, ((st.state * 16) % 256) + ToDigit16(chars[i])),
                    !.state = NoByte]
    ELSE [st EXCEPT !.state = ToDigit16(chars[i])]

\* write_to, ContentTransform::Hex: one turn of the loop over the rope's
\* characters, on the i-th of them, with the bytes pushed and the digit in hand
HexDecodeChar(chars, i, st) ==
    IF IsWhitespace(chars[i]) THEN st
    ELSE IF ToDigit16(chars[i]) = -1
    THEN LET row == CharToLine(chars, i - 1)
             col == (i - 1) - LineToChar(chars, row)
         IN  [ok |-> FALSE, row |-> row + 1, col |-> col + 1, buf |-> <<>>,
              state |-> NoByte]
    ELSE IF st.state # NoByte
    THEN [st EXCEPT !.buf = Append(@, ((st.state * 16) % 256) + ToDigit16(chars[i])),
                    !.state = NoByte]
    ELSE [st EXCEPT !.state = ToDigit16(chars[i])]

\* the turns of that loop for the characters i..j; bail! leaves the loop
RECURSIVE HexDecodeRange(_, _, _, _)
HexDecodeRange(chars, i, j, st) ==
    IF i > j \/ ~st.ok THEN st
    ELSE HexDecodeRange(chars, i + 1, j, HexDecodeChar(chars, i, st))

RECURSIVE HexDecodeLoop(_, _, _)
HexDecodeLoop(chars, i, st) ==
    IF i > Len(chars) \/ ~st.ok THEN st
    ELSE LET j == IF i + DecodeRun - 1 < Len(chars) THEN i + DecodeRun - 1
                  ELSE Len(chars)
         IN  HexDecodeLoop(chars, j + 1, HexDecodeRange(chars, i, j, st))

\* mutant: a digit left in hand after the loop is dropped
HexDecode_DropLone(chars) ==
    LET st == HexDecodeLoop(chars, 1,
                  [ok |-> TRUE, row |-> 0, col |-> 0, buf |-> <<>>, state |-> NoByte])
    IN  IF ~st.ok
        THEN [ok |-> FALSE, row |-> st.row, col |-> st.col, bytes |-> <<>>]
        ELSE [ok |-> TRUE, row |-> 0, col |-> 0, bytes |-> st.buf]

\* write_to, ContentTransform::Hex: the bytes to write, or the error position
HexDecode(chars) ==
    LET st == HexDecodeLoop(chars, 1,
                  [ok |-> TRUE, row |-> 0, col |-> 0, buf |-> <<>>, state |-> NoByte])
    IN  IF ~st.ok
        THEN [ok |-> FALSE, row |-> st.row, col |-> st.col, bytes |-> <<>>]
        ELSE [ok |-> TRUE, row |-> 0, col |-> 0,
              bytes |-> IF st.state # NoByte
                        THEN Append(st.buf, (st.state * 16) % 256)
                        ELSE st.buf]

(***************************************************************************)
(* buffer.rs: Syntax, read_from, write_to, replace_text_at                 *)
(***************************************************************************)
\* Lang::try_from on Path::extension of the names the model opens
LangOf(path) ==
    IF path = "a.rs" THEN "Rust" ELSE IF path = "a.zig" THEN "Zig" ELSE "None"

NoSyntaxTracker == [present |-> FALSE]
NoEdit == [reported |-> FALSE]

\* Syntax::try_from_ext: a tracker whose tree spans the rope it parsed
SyntaxTryFromExt(path, chars) ==
    IF LangOf(path) = "None" THEN NoSyntaxTracker
    ELSE [present |-> TRUE, lang |-> LangOf(path), told_len |-> LenBytes(chars),
          edit |-> NoEdit]

\* Buffer::try_read_utf8
TryReadUtf8(bytes, path) ==
    LET u == Utf8Decode(bytes)
    IN  [ok |-> u.ok, contents |-> u.chars,
         syntax |-> IF u.ok THEN SyntaxTryFromExt(path, u.chars) ELSE NoSyntaxTracker,
         ty |-> "Utf8"]

\* The gzip and NBT codecs (flate2, fastnbt, fastsnbt) are reduced to one
\* file: these bytes carry a gzip header and a payload that decodes, and
\* pretty-print to this text; only this text parses back.
NbtFileBytes == <<31, 139, 8>>
NbtFileText == <<123, 125>>

\* mutant: every file with the gzip magic is taken for NBT
TryReadNbt_AnyGzip(bytes, path) ==
    [ok |-> Len(bytes) >= 2 /\ SubSeq(bytes, 1, 2) = <<31, 139>>,
     contents |-> NbtFileText, syntax |-> NoSyntaxTracker, ty |-> "Nbt"]

\* Buffer::try_read_nbt (".json" has no extension, so no tracker)
TryReadNbt(bytes, path) ==
    [ok |-> bytes = NbtFileBytes, contents |-> NbtFileText,
     syntax |-> SyntaxTryFromExt(".json", NbtFileText), ty |-> "Nbt"]

\* Buffer::read_from: text first, then NBT, then the hex dump
ReadFrom(bytes, path) ==
    IF TryReadUtf8(bytes, path).ok THEN TryReadUtf8(bytes, path)
    ELSE IF TryReadNbt(bytes, path).ok THEN TryReadNbt(bytes, path)
    ELSE [ok |-> TRUE, contents |-> ReadHex(bytes),
          syntax |-> SyntaxTryFromExt("", ReadHex(bytes)), ty |-> "Hex"]

\* what the gzip encoder, made before the text is parsed, writes when it is
\* dropped without a payload (reduced to the magic)
GzipEmptyBytes == <<31, 139>>

\* Buffer::write_to: the bytes written, with the error if it failed
WriteTo(chars, transform) ==
    IF transform = "Utf8" THEN [ok |-> TRUE, bytes |-> Utf8Encode(chars), err |-> ""]
    ELSE IF transform = "Hex"
    THEN LET r == HexDecode(chars)
         IN  IF r.ok THEN [ok |-> TRUE, bytes |-> r.bytes, err |-> ""]
             ELSE [ok |-> FALSE, bytes |-> <<>>,
                   err |-> <<"invalid token at", r.row, r.col>>]
    ELSE IF chars = NbtFileText
    THEN [ok |-> TRUE, bytes |-> NbtFileBytes, err |-> ""]
    ELSE [ok |-> FALSE, bytes |-> GzipEmptyBytes, err |-> "snbt"]

\* the line and the byte column in it of a byte offset
PointAt(chars, byte_idx) ==
    <<ByteToLine(chars, byte_idx),
      byte_idx - LineToByte(chars, ByteToLine(chars, byte_idx))>>

\* replace_text_at, from "update syntax highlighting" on: every index is
\* taken from the rope as the edit left it.  char_to_byte panics beyond the
\* rope's end; the column subtraction overflows when the line taken for the
\* old end starts after new_end (a panic with overflow checks, else it wraps:
\* the column then stands for 2^64 plus the negative number kept here).
SyntaxEdit(b, start, end, text, checks) ==
    LET rope == b.contents
        empty == start >= end
        start_byte_idx == CharToByte(rope, start)
        end_byte_idx == IF empty THEN start_byte_idx ELSE CharToByte(rope, end)
        old_start_line_idx == ByteToLine(rope, start_byte_idx)
        old_start_col_idx == start_byte_idx - LineToByte(rope, old_start_line_idx)
        old_end_line_idx == IF empty THEN old_start_line_idx
                            ELSE ByteToLine(rope, end_byte_idx)
        old_end_col_idx == IF empty THEN old_start_col_idx
                           ELSE end_byte_idx - LineToByte(rope, old_end_line_idx)
        new_end == start_byte_idx + LenBytes(text)
        new_end_line_idx == ByteToLine(rope, new_end)
        new_end_col_idx == new_end - LineToByte(rope, old_end_line_idx)
        edit == [reported |-> TRUE,
                 start_byte |-> start_byte_idx,
                 old_end_byte |-> end_byte_idx,
                 new_end_byte |-> new_end,
                 start_position |-> <<old_start_line_idx, old_start_col_idx>>,
                 old_end_position |-> <<old_end_line_idx, old_end_col_idx>>,
                 new_end_position |-> <<new_end_line_idx, new_end_col_idx>>]
    IN  IF ~empty /\ end > Len(rope) THEN [b EXCEPT !.panicked = TRUE]
        ELSE IF new_end_col_idx < 0 /\ checks THEN [b EXCEPT !.panicked = TRUE]
        ELSE [b EXCEPT !.syntax.edit = edit,
                       !.syntax.told_len = @ - (end_byte_idx - start_byte_idx)
                                             + (new_end - start_byte_idx)]

\* mutant: a range that reaches beyond the rope is clamped and applied
ReplaceTextAt_Clamped(b, start, end, text, checks) ==
    LET s == IF start > Len(b.contents) THEN Len(b.contents) ELSE start
        e == IF end > Len(b.contents) THEN Len(b.contents) ELSE end
        empty == s >= e
        removed == IF ~empty THEN RopeRemove(b.contents, s, e) ELSE b.contents
        inserted == IF Len(text) > 0 THEN RopeInsert(removed, s, text) ELSE removed
    IN  [b EXCEPT !.contents = inserted, !.modified = @ \/ ~empty \/ Len(text) > 0]

\* Buffer::replace_text_at(start..end, text) on b = [contents, modified,
\* syntax, panicked]
ReplaceTextAt(b, start, end, text, checks) ==
    IF start > Len(b.contents) \/ end > Len(b.contents) THEN b
    ELSE
    LET empty == start >= end
        removed == IF ~empty THEN RopeRemove(b.contents, start, end) ELSE b.contents
        inserted == IF Len(text) > 0 THEN RopeInsert(removed, start, text) ELSE removed
        after == [b EXCEPT !.contents = inserted,
                           !.modified = @ \/ ~empty \/ Len(text) > 0]
    IN  IF ~b.syntax.present THEN after
        ELSE SyntaxEdit(after, start, end, text, checks)

\* Buffer::insert_text_at
InsertTextAt(b, cursor, text, checks) == ReplaceTextAt(b, cursor, cursor, text, checks)

\* Buffer::overwrite_text_at: the range ends at text.len(), the text's bytes
OverwriteTextAt(b, cursor, text, checks) ==
    ReplaceTextAt(b, cursor, LenBytes(text), text, checks)

(***************************************************************************)
(* State                                                                   *)
(***************************************************************************)
VARIABLES
    \* ConnectionPool
    string_pool,    \* ConnectionPool.string_pool: the interned text
    rw_writer,      \* the caller holding string_pool's write lock, 0 for none
    rw_readers,     \* the callers holding string_pool's read lock
    connections,    \* ConnectionPool.connections: chain -> idle session ids
    mutex,          \* the caller holding the connections mutex, 0 for none
    sess,           \* every Connection spawned so far, by id
    dropped,        \* the ids of the Connections that were dropped (shell killed)
    \* callers of the pool (Buffer::open_remote, Buffer::write)
    pc,             \* where each caller is
    op,             \* the handler each caller runs
    arg,            \* the chain string given to connect
    remote,         \* the parsed chain given to connect_to
    conn,           \* the Connection each caller owns, 0 for none
    hop,            \* index of the next hop in connect_to's loop
    result,         \* what the caller's last handler returned
    doc,            \* the remote Buffer each caller last opened
    \* Part::parse on its own
    parse_in,       \* the segment to parse
    parse_out,      \* what Part::parse returned
    parse_n,        \* segments parsed so far
    \* the file system under the one local path a Buffer is opened at
    path_ino,       \* the inode the path names, 0 when no file exists there
    perm,           \* what the process may do with the file: [r, w]
    inodes,         \* the bytes of every inode created so far
    \* one Buffer
    overflow_checks,\* the build panics on integer overflow (debug) or wraps
    name,           \* Buffer.name: the path the Buffer was opened at
    bpc,            \* where Buffer::open_local is, "none" outside of it
    contents,       \* Buffer.contents: the rope, as its code points
    modified,       \* Buffer.modified
    ty,             \* Buffer.ty
    inner,          \* Buffer.inner
    syntax,         \* Buffer.syntax and what its tree was told by edits
    last_call,      \* the last text edit called, with the rope it met
    n_edits,        \* text edits made so far
    buf_result,     \* what the last Buffer handler returned
    panicked,       \* the process panicked
    \* the hex codec on its own
    hex_in,         \* the bytes read_hex is given
    hex_text,       \* the rope read_hex rendered
    hex_out,        \* what write_to decoded from it
    \* Buffer::open's choice of route on its own
    open_route,     \* the path Buffer::open was given and the route it took
    \* the line-number digits of the view on their own
    digit,          \* the arguments of nth_digit_base10 / 16 and what it returned
    \* one Connection and the shell behind it
    wt,             \* one call of Connection::wait
    sh,             \* one new Connection inside connect_to's loop over the hops
    \* the editor: its open buffers and its one view
    ed              \* Editor { buffers, view, mode, status, should_close }

poolVars == <<string_pool, rw_writer, rw_readers, connections, mutex, sess, dropped>>
callerVars == <<pc, op, arg, remote, conn, hop, result, doc>>
parseVars == <<parse_in, parse_out, parse_n>>
fsVars == <<path_ino, perm, inodes>>
bufVars == <<overflow_checks, name, bpc, contents, modified, ty, inner, syntax, last_call, n_edits,
             buf_result, panicked>>
hexVars == <<hex_in, hex_text, hex_out>>
auxVars == <<open_route, digit, wt, sh, ed>>
vars == <<poolVars, callerVars, parseVars, fsVars, bufVars, hexVars, auxVars>>

\* what each part of the model leaves alone
OffPool == <<parseVars, fsVars, bufVars, hexVars, auxVars>>
OffParse == <<rw_writer, rw_readers, connections, mutex, sess, dropped,
              callerVars, fsVars, bufVars, hexVars, auxVars>>
OffBuffer == <<poolVars, callerVars, parseVars, hexVars, auxVars>>
OffHex == <<poolVars, callerVars, parseVars, fsVars, bufVars, auxVars>>
OffRoute == <<rw_writer, rw_readers, connections, mutex, sess, dropped,
              callerVars, parseVars, fsVars, bufVars, hexVars, digit, wt, sh, ed>>
OffDigit == <<poolVars, callerVars, parseVars, fsVars, bufVars, hexVars,
              open_route, wt, sh, ed>>
OffWait == <<poolVars, callerVars, parseVars, fsVars, bufVars, hexVars,
             open_route, digit, sh, ed>>
OffShell == <<poolVars, callerVars, parseVars, fsVars, bufVars, hexVars,
              open_route, digit, wt, ed>>
OffEditor == <<poolVars, callerVars, parseVars, fsVars, bufVars, hexVars,
               open_route, digit, wt, sh>>

Callers == 1..NumCallers

NoDoc == [open |-> FALSE]
NoResult == [done |-> FALSE]

InitPool ==
    /\ string_pool = <<>>
    /\ rw_writer = 0
    /\ rw_readers = {}
    /\ connections = <<>>
    /\ mutex = 0
    /\ sess = <<>>
    /\ dropped = {}

InitCallers ==
    /\ pc = [c \in Callers |-> "idle"]
    /\ op = [c \in Callers |-> "none"]
    /\ arg = [c \in Callers |-> <<>>]
    /\ remote = [c \in Callers |-> <<>>]
    /\ conn = [c \in Callers |-> 0]
    /\ hop = [c \in Callers |-> 0]
    /\ result = [c \in Callers |-> "none"]
    /\ doc = [c \in Callers |-> NoDoc]

InitParse ==
    /\ parse_in = <<>>
    /\ parse_out = NoResult
    /\ parse_n = 0

NoCall == [made |-> FALSE]
Scratch == [kind |-> "Scratch", show_welcome |-> FALSE]

InitFs ==
    /\ path_ino = 0
    /\ perm = [r |-> TRUE, w |-> TRUE]
    /\ inodes = <<>>

NoOp == [op |-> "none", ok |-> TRUE, err |-> ""]

\* Buffer::new
InitBuffer ==
    /\ overflow_checks = FALSE
    /\ name = "[scratch]"
    /\ bpc = "none"
    /\ contents = <<>>
    /\ modified = FALSE
    /\ ty = "Utf8"
    /\ inner = Scratch
    /\ syntax = NoSyntaxTracker
    /\ last_call = NoCall
    /\ n_edits = 0
    /\ buf_result = NoOp
    /\ panicked = FALSE

InitHex ==
    /\ hex_in = <<>>
    /\ hex_text = <<>>
    /\ hex_out = NoResult

InitRoute == open_route = NoResult
InitDigit == digit = NoResult
InitWait == wt = NoResult
InitShell == sh = NoResult
InitNoEditor == ed = NoResult
InitAux == InitRoute /\ InitDigit /\ InitWait /\ InitShell /\ InitNoEditor

(***************************************************************************)
(* tramp.rs: ConnectionPool, as its callers in buffer.rs drive it          *)
(***************************************************************************)
\* the chain strings the callers open
S_ssh_a == T_ssh \o <<":", "a">>
S_ssh_aa == T_ssh \o <<":", "a", "a">>
ChainStrings ==
    { S_ssh_a \o <<"|">> \o S_ssh_aa,
      T_docker \o <<":", "a">> \o <<"|">> \o T_bash,
      T_ssh \o <<":">>,
      <<"f", "o", "o">> }

HopOutcomes(part) ==
    IF part.kind \in {"Ssh", "Sudo"} THEN {"ok", "err", "askpw"} ELSE {"ok", "err"}

\* mutant: the popped Connection stays in the list
PopIdle_Keep(list) == list

\* Vec::pop on an idle list: the list that stays behind
PopIdle(list) == SubSeq(list, 1, Len(list) - 1)

\* mutant: every Connection is pushed onto the list of the empty chain
PushIdle_OneList(map, key, id) ==
    [k \in DOMAIN map \cup {<<>>} |->
        IF k = <<>>
        THEN (IF <<>> \in DOMAIN map THEN map[<<>>] ELSE <<>>) \o <<id>>
        ELSE map[k]]

\* HashMap entry(key).or_default() followed by Vec::push
PushIdle(map, key, id) ==
    [k \in DOMAIN map \cup {key} |->
        IF k = key
        THEN (IF key \in DOMAIN map THEN map[key] ELSE <<>>) \o <<id>>
        ELSE map[k]]

\* where a handler goes on once connect / connect_to returned Ok(conn)
AfterConnect(c) == IF op[c] = "open_remote" THEN "or_read" ELSE "wr_write_file"

\* the caller goes on to label l
Goto(c, l) == pc' = [pc EXCEPT ![c] = l]

\* the handler's locals stay as they are
KeepLocals == UNCHANGED <<op, arg, remote, hop>>

\* the handler returns r to its caller; its locals are gone
Return(c, r) ==
    /\ pc' = [pc EXCEPT ![c] = "idle"]
    /\ result' = [result EXCEPT ![c] = r]
    /\ op' = [op EXCEPT ![c] = "none"]
    /\ arg' = [arg EXCEPT ![c] = <<>>]
    /\ remote' = [remote EXCEPT ![c] = <<>>]
    /\ hop' = [hop EXCEPT ![c] = 0]

\* the Connection a caller owns is dropped (Drop kills its shell)
DropConn(c) ==
    /\ dropped' = dropped \cup {conn[c]}
    /\ conn' = [conn EXCEPT ![c] = 0]

\* Buffer::open_remote(parts, ..) is called
StartOpenRemote(c, s) ==
    /\ UNCHANGED OffPool
    /\ pc[c] = "idle"
    /\ Goto(c, "connect")
    /\ op' = [op EXCEPT ![c] = "open_remote"]
    /\ arg' = [arg EXCEPT ![c] = s]
    /\ result' = [result EXCEPT ![c] = "none"]
    /\ UNCHANGED <<remote, conn, hop, doc, poolVars>>

\* Buffer::write on a Buffer whose inner is Remote { remote, readonly: false }
StartWrite(c) ==
    /\ UNCHANGED OffPool
    /\ pc[c] = "idle"
    /\ doc[c].open
    /\ Goto(c, "ct_lock")
    /\ op' = [op EXCEPT ![c] = "write"]
    /\ arg' = [arg EXCEPT ![c] = doc[c].parts]
    /\ remote' = [remote EXCEPT ![c] = doc[c].remote]
    /\ result' = [result EXCEPT ![c] = "none"]
    /\ UNCHANGED <<conn, hop, doc, poolVars>>

\* connect: string_pool.write()
ConnectLockPool(c) ==
    /\ UNCHANGED OffPool
    /\ pc[c] = "connect"
    /\ rw_writer = 0
    /\ rw_readers = {}
    /\ rw_writer' = c
    /\ Goto(c, "parse")
    /\ KeepLocals
    /\ UNCHANGED <<string_pool, rw_readers, connections, mutex, sess, dropped,
                   conn, result, doc>>

\* mutant: connect keeps the write guard when it goes on to connect_to
WriterAfterParse_Kept(c, ok) == IF ok THEN c ELSE 0

\* connect: the holder of the write lock after the parse: nobody, the guard
\* being dropped by the `?` on an Err and by drop(string_pool) on Ok
WriterAfterParse(c, ok) == 0

\* connect: parse every segment, drop the write guard, go on to connect_to
\* or return the parse error
ConnectParse(c) ==
    /\ UNCHANGED OffPool
    /\ pc[c] = "parse"
    /\ LET r == ParseChain(string_pool, arg[c])
       IN  /\ string_pool' = r.pool
           /\ rw_writer' = WriterAfterParse(c, r.ok)
           /\ IF r.ok
              THEN /\ remote' = [remote EXCEPT ![c] = r.parts]
                   /\ Goto(c, "ct_lock")
                   /\ UNCHANGED <<op, arg, hop, result>>
              ELSE Return(c, "err")
    /\ UNCHANGED <<rw_readers, connections, mutex, sess, dropped, conn, doc>>

\* connect_to: connections.lock()
ConnectToLock(c) ==
    /\ UNCHANGED OffPool
    /\ pc[c] = "ct_lock"
    /\ mutex = 0
    /\ mutex' = c
    /\ Goto(c, "ct_lookup")
    /\ KeepLocals
    /\ UNCHANGED <<string_pool, rw_writer, rw_readers, connections, sess, dropped,
                   conn, result, doc>>

\* connect_to: pop an idle Connection of this chain and return it (the guard
\* is dropped by the return), or go on to spawn with the guard still alive
ConnectToLookup(c) ==
    /\ UNCHANGED OffPool
    /\ pc[c] = "ct_lookup"
    /\ IF remote[c] \in DOMAIN connections /\ Len(connections[remote[c]]) > 0
       THEN LET cache == connections[remote[c]]
            IN  /\ conn' = [conn EXCEPT ![c] = cache[Len(cache)]]
                /\ connections' = [connections EXCEPT ![remote[c]] = PopIdle(cache)]
                /\ mutex' = 0
                /\ Goto(c, AfterConnect(c))
       ELSE /\ Goto(c, "ct_spawn")
            /\ UNCHANGED <<conn, connections, mutex>>
    /\ KeepLocals
    /\ UNCHANGED <<string_pool, rw_writer, rw_readers, sess, dropped, result, doc>>

\* connect_to: rexpect::spawn of the local shell
ConnectToSpawn(c) ==
    /\ UNCHANGED OffPool
    /\ pc[c] = "ct_spawn"
    /\ \/ /\ Len(sess) < MaxSpawn
          /\ sess' = Append(sess, [remote |-> remote[c], origin |-> arg[c],
                                   lastOk |-> TRUE])
          /\ conn' = [conn EXCEPT ![c] = Len(sess) + 1]
          /\ Goto(c, "ct_wait")
          /\ KeepLocals
          /\ UNCHANGED <<mutex, result>>
       \/ /\ mutex' = 0
          /\ Return(c, "err")
          /\ UNCHANGED <<sess, conn>>
    /\ UNCHANGED <<string_pool, rw_writer, rw_readers, connections, dropped, doc>>

\* connect_to: conn.wait(None) for the local shell's prompt
ConnectToWait(c) ==
    /\ UNCHANGED OffPool
    /\ pc[c] = "ct_wait"
    /\ \/ /\ Goto(c, "ct_rlock")
          /\ KeepLocals
          /\ UNCHANGED <<mutex, conn, dropped, result>>
       \/ /\ mutex' = 0
          /\ DropConn(c)
          /\ Return(c, "err")
    /\ UNCHANGED <<string_pool, rw_writer, rw_readers, connections, sess, doc>>

\* connect_to: string_pool.read()
ConnectToReadLock(c) ==
    /\ UNCHANGED OffPool
    /\ pc[c] = "ct_rlock"
    /\ rw_writer = 0
    /\ rw_readers' = rw_readers \cup {c}
    /\ hop' = [hop EXCEPT ![c] = 1]
    /\ Goto(c, "ct_hop")
    /\ UNCHANGED <<string_pool, rw_writer, connections, mutex, sess, dropped,
                   op, arg, remote, conn, result, doc>>

\* connect_to: a hop's launch command succeeded
HopOk(c) ==
    /\ hop' = [hop EXCEPT ![c] = hop[c] + 1]
    /\ UNCHANGED <<rw_readers, mutex, pc, conn, dropped, result, op, arg, remote>>

\* connect_to: a hop returned Err: `?` drops the Connection and both guards
HopErr(c) ==
    /\ rw_readers' = rw_readers \ {c}
    /\ mutex' = 0
    /\ DropConn(c)
    /\ Return(c, "err")

\* connect_to: a hop met the password prompt and reached todo!(): the panic
\* unwinds, dropping the Connection and both guards
HopPanic(c) ==
    /\ rw_readers' = rw_readers \ {c}
    /\ mutex' = 0
    /\ DropConn(c)
    /\ Goto(c, "panicked")
    /\ result' = [result EXCEPT ![c] = "panic"]
    /\ KeepLocals

\* connect_to: one turn of the loop over the hops, or its end
ConnectToHop(c) ==
    /\ UNCHANGED OffPool
    /\ pc[c] = "ct_hop"
    /\ IF hop[c] > Len(remote[c])
       THEN /\ rw_readers' = rw_readers \ {c}
            /\ mutex' = 0
            /\ Goto(c, AfterConnect(c))
            /\ KeepLocals
            /\ UNCHANGED <<conn, dropped, result>>
       ELSE LET part == remote[c][hop[c]]
            IN  IF part.kind = "Bash"
                THEN HopOk(c)
                ELSE \E o \in HopOutcomes(part) :
                        IF o = "ok" THEN HopOk(c)
                        ELSE IF o = "err" THEN HopErr(c)
                        ELSE HopPanic(c)
    /\ UNCHANGED <<string_pool, rw_writer, connections, sess, doc>>

\* open_remote_with: conn.read_file and the decoding of what it returned;
\* open_remote keeps the result and goes on to recycle in either case
OpenRemoteRead(c) ==
    /\ UNCHANGED OffPool
    /\ pc[c] = "or_read"
    /\ \E o \in {"ok", "err"} :
          /\ sess' = [sess EXCEPT ![conn[c]].lastOk = (o = "ok")]
          /\ result' = [result EXCEPT ![c] = o]
          /\ doc' = [doc EXCEPT ![c] =
                       IF o = "ok"
                       THEN [open |-> TRUE, remote |-> sess[conn[c]].remote,
                             parts |-> arg[c]]
                       ELSE @]
    /\ Goto(c, "recycle")
    /\ KeepLocals
    /\ UNCHANGED <<string_pool, rw_writer, rw_readers, connections, mutex, dropped,
                   conn>>

\* a tunnel operation of write returned Err: `?` drops the Connection
WriteErr(c) ==
    /\ sess' = [sess EXCEPT ![conn[c]].lastOk = FALSE]
    /\ DropConn(c)
    /\ Return(c, "err")

\* write: conn.write_file
WriteFile(c) ==
    /\ UNCHANGED OffPool
    /\ pc[c] = "wr_write_file"
    /\ \/ /\ Goto(c, "wr_write_to")
          /\ KeepLocals
          /\ UNCHANGED <<sess, conn, dropped, result>>
       \/ WriteErr(c)
    /\ UNCHANGED <<string_pool, rw_writer, rw_readers, connections, mutex, doc>>

\* write: Self::write_to into the tunnel's writer
WriteToTunnel(c) ==
    /\ UNCHANGED OffPool
    /\ pc[c] = "wr_write_to"
    /\ \/ /\ Goto(c, "wr_finish")
          /\ KeepLocals
          /\ UNCHANGED <<sess, conn, dropped, result>>
       \/ WriteErr(c)
    /\ UNCHANGED <<string_pool, rw_writer, rw_readers, connections, mutex, doc>>

\* write: conn.finish_write_file
WriteFinish(c) ==
    /\ UNCHANGED OffPool
    /\ pc[c] = "wr_finish"
    /\ \/ /\ sess' = [sess EXCEPT ![conn[c]].lastOk = TRUE]
          /\ Goto(c, "recycle")
          /\ result' = [result EXCEPT ![c] = "ok"]
          /\ KeepLocals
          /\ UNCHANGED <<conn, dropped>>
       \/ WriteErr(c)
    /\ UNCHANGED <<string_pool, rw_writer, rw_readers, connections, mutex, doc>>

\* recycle: connections.lock()
RecycleLock(c) ==
    /\ UNCHANGED OffPool
    /\ pc[c] = "recycle"
    /\ mutex = 0
    /\ mutex' = c
    /\ Goto(c, "rc_push")
    /\ KeepLocals
    /\ UNCHANGED <<string_pool, rw_writer, rw_readers, connections, sess, dropped,
                   conn, result, doc>>

\* recycle: push the Connection onto its chain's idle list; the handler
\* then returns what it kept in result
RecyclePush(c) ==
    /\ UNCHANGED OffPool
    /\ pc[c] = "rc_push"
    /\ connections' = PushIdle(connections, sess[conn[c]].remote, conn[c])
    /\ conn' = [conn EXCEPT ![c] = 0]
    /\ mutex' = 0
    /\ Return(c, result[c])
    /\ UNCHANGED <<string_pool, rw_writer, rw_readers, sess, dropped, doc>>

PoolStep(c) ==
    \/ \E s \in ChainStrings : StartOpenRemote(c, s)
    \/ StartWrite(c)
    \/ ConnectLockPool(c)
    \/ ConnectParse(c)
    \/ ConnectToLock(c)
    \/ ConnectToLookup(c)
    \/ ConnectToSpawn(c)
    \/ ConnectToWait(c)
    \/ ConnectToReadLock(c)
    \/ ConnectToHop(c)
    \/ OpenRemoteRead(c)
    \/ WriteFile(c)
    \/ WriteToTunnel(c)
    \/ WriteFinish(c)
    \/ RecycleLock(c)
    \/ RecyclePush(c)

NextPool == \E c \in Callers : PoolStep(c)

InitAll == InitPool /\ InitCallers /\ InitParse /\ InitFs /\ InitBuffer /\ InitHex /\ InitAux

SpecPool == InitAll /\ [][NextPool]_vars

(***************************************************************************)
(* The pool with the file popup's path_of calls beside its other callers   *)
(***************************************************************************)
\* Popup::event calls CONN_POOL.path_of
StartPathOf(c) ==
    /\ UNCHANGED OffPool
    /\ pc[c] = "idle"
    /\ Goto(c, "po_rlock")
    /\ op' = [op EXCEPT ![c] = "path_of"]
    /\ result' = [result EXCEPT ![c] = "none"]
    /\ UNCHANGED <<arg, remote, conn, hop, doc, poolVars>>

\* path_of: string_pool.read()
PathOfReadLock(c) ==
    /\ UNCHANGED OffPool
    /\ pc[c] = "po_rlock"
    /\ rw_writer = 0
    /\ rw_readers' = rw_readers \cup {c}
    /\ Goto(c, "po_write")
    /\ KeepLocals
    /\ UNCHANGED <<string_pool, rw_writer, connections, mutex, sess, dropped,
                   conn, result, doc>>

\* path_of: the parts and the path are written to buf, which is returned;
\* the read guard is dropped by the return
PathOfReturn(c) ==
    /\ UNCHANGED OffPool
    /\ pc[c] = "po_write"
    /\ rw_readers' = rw_readers \ {c}
    /\ Return(c, "ok")
    /\ UNCHANGED <<string_pool, rw_writer, connections, mutex, sess, dropped,
                   conn, doc>>

LockStep(c) ==
    \/ PoolStep(c)
    \/ StartPathOf(c)
    \/ PathOfReadLock(c)
    \/ PathOfReturn(c)

NextLocks == \E c \in Callers : LockStep(c)

InitAllLocks == InitAll

SpecLocks == InitAllLocks /\ [][NextLocks]_vars

(***************************************************************************)
(* Part::parse on its own: segments parsed one after another against the   *)
(* shared string pool                                                      *)
(***************************************************************************)
T_foo == <<"f", "o", "o">>
T_host == <<"a">>
T_port == <<"2", "2", "2", "2">>

\* the segments parsed: a first token, then up to MaxTokens - 1 further ones
FirstTokens == {T_ssh, T_sudo, T_docker, T_bash, T_foo, <<>>}
ArgTokens == {T_host, T_port, T_askpw, <<>>}

SegmentInputs ==
    {Join(<<f>> \o ts, Colon) :
        f \in FirstTokens,
        ts \in UNION {[1..n -> ArgTokens] : n \in 0..(MaxTokens - 1)}}

ParseSegment(s) ==
    /\ parse_n < MaxParses
    /\ LET r == PartParse(string_pool, s)
       IN  /\ parse_out' = [done |-> TRUE, ok |-> r.ok, part |-> r.part,
                            err |-> r.err]
           /\ string_pool' = r.pool
    /\ parse_in' = s
    /\ parse_n' = parse_n + 1
    /\ UNCHANGED OffParse

NextParse == \E s \in SegmentInputs : ParseSegment(s)

SpecParse == InitAll /\ [][NextParse]_vars

(***************************************************************************)
(* Claims about the connection pool (SpecPool)                             *)
(***************************************************************************)
IdleIds == {connections[k][i] : <<k, i>> \in
              {<<k, i>> \in (DOMAIN connections) \X (1..MaxSpawn + NumCallers) :
                  i <= Len(connections[k])}}

\* C1: a session on which a tunnel operation of a remote open or a remote
\* write returned an error is dropped and never sits in the idle list: every
\* idle session's last operation succeeded.
C1_ErroredSessionNeverIdle == \A id \in IdleIds : sess[id].lastOk

\* C2: the connections mutex is never held across spawn, wait or hop I/O: a
\* caller that is spawning the shell, waiting for its prompt or running hop
\* commands inside connect_to does not hold the mutex, so another caller can
\* take it.
C2_MutexNotHeldAcrossIo ==
    \A c \in Callers :
        pc[c] \in {"ct_spawn", "ct_wait", "ct_rlock", "ct_hop"} => mutex # c

Holders(id) == {c \in Callers : conn[c] = id}
IdleSlots(id) ==
    {<<k, i>> \in (DOMAIN connections) \X (1..MaxSpawn + NumCallers) :
        i <= Len(connections[k]) /\ connections[k][i] = id}

\* C3: every live session is owned by exactly one caller or sits exactly once
\* in the idle map, never both, and no session is held by two callers; a
\* dropped session is nowhere.
C3_OwnedXorIdle ==
    \A id \in 1..Len(sess) :
        Cardinality(Holders(id)) + Cardinality(IdleSlots(id))
            = IF id \in dropped THEN 0 ELSE 1

\* a caller has checked a recycled session out of the pool (it carries the
\* outcome of an earlier operation) while another session sits idle
C3_Witness ==
    \E c \in Callers :
        /\ pc[c] \in {"or_read", "wr_write_file"}
        /\ conn[c] # 0
        /\ ~sess[conn[c]].lastOk
        /\ IdleIds # {}

\* C4: connect(s); recycle(session); connect(s) reuses the session: a
\* connect(s) never goes on to a second login (spawn) while a session that was
\* logged in for the same chain string s sits idle in the pool.
C4_SecondConnectReuses ==
    \A c \in Callers :
        pc[c] = "ct_spawn" /\ op[c] = "open_remote"
            => ~\E id \in IdleIds : sess[id].origin = arg[c]

\* a segment the documented grammar rejects: an unsupported first token, or
\* ssh or docker without a destination or container id, or with an empty one
BadSegment(a) ==
    \/ a[1] \notin {T_ssh, T_sudo, T_docker, T_bash}
    \/ a[1] \in {T_ssh, T_docker} /\ (Len(a) < 2 \/ a[2] = <<>>)
BadChain(s) ==
    \E i \in 1..Len(Split(s, Pipe)) : BadSegment(Split(Split(s, Pipe)[i], Colon))

\* C11: a connect of a chain string with an unsupported protocol token, or
\* with an ssh or docker segment whose destination or container id is
\* missing or empty, fails at the parse: it never goes past the parse to the
\* idle map or to a spawn.
C11_BadChainFailsAtParse ==
    \A c \in Callers :
        (op[c] = "open_remote" /\ BadChain(arg[c])) => pc[c] \in {"connect", "parse"}

\* a caller inside the loop over the hops keeps running: it holds both
\* locks and waits for nobody
SpecPoolFair == SpecPool /\ \A c \in Callers : WF_vars(ConnectToHop(c))

\* C12: a hop whose launch command meets the password prompt forwards a
\* credential and waits again, so a connect that is running its hops always
\* comes to return: with a session (the caller goes on to use it) or with an
\* error (the caller is idle again).
C12_HopsComeToReturn ==
    \A c \in Callers :
        (pc[c] = "ct_hop") ~> (pc[c] \in {"idle", "or_read", "wr_write_file"})

\* C13: no error condition of the tunnel (a bad hop token, a failed hop
\* command, a timeout, an unexpected password prompt) panics an open, a write
\* or a connect: every handler that ends, ends by returning to its caller.
C13_ErrorsAreReturned == \A c \in Callers : pc[c] # "panicked"

\* C29: the same chain string parses to the same hops at any two times,
\* whatever was interned before or in between: two sessions that were logged
\* in for the same chain string have the same chain, the pool's key.
C29_SameStringSameKey ==
    \A i \in 1..Len(sess), j \in 1..Len(sess) :
        sess[i].origin = sess[j].origin => sess[i].remote = sess[j].remote

\* a caller stands before a lock it cannot have now.  std leaves open
\* whether a reader is let in while a writer waits; here it is not.
WaitsForMutex(c) == pc[c] \in {"ct_lock", "recycle"} /\ mutex # 0
WaitsForWrite(c) == pc[c] = "connect" /\ (rw_writer # 0 \/ rw_readers # {})
WaitsForRead(c) ==
    /\ pc[c] \in {"ct_rlock", "po_rlock"}
    /\ rw_writer # 0 \/ \E w \in Callers : pc[w] = "connect"
Blocked(c) == WaitsForMutex(c) \/ WaitsForWrite(c) \/ WaitsForRead(c)

\* C36: the two locks are taken in one order only (the RwLock after the
\* Mutex, never the Mutex while the RwLock is held, the write lock with
\* nothing held), a lock is held by a caller inside the call that took it,
\* and whenever a caller waits for a lock another caller is inside a call
\* and waits for none: no state of connect, connect_to, recycle and
\* path_of calls is a deadlock.
C36_NoLockDeadlock ==
    /\ \A c \in Callers :
          /\ pc[c] \in {"ct_lock", "recycle"} => (c \notin rw_readers /\ rw_writer # c)
          /\ pc[c] = "connect" => (c \notin rw_readers /\ rw_writer # c /\ mutex # c)
          /\ pc[c] \in {"ct_rlock", "po_rlock"} => (c \notin rw_readers /\ rw_writer # c)
          /\ pc[c] \in {"idle", "panicked"} =>
                (c \notin rw_readers /\ rw_writer # c /\ mutex # c)
    /\ rw_writer # 0 => rw_readers = {}
    /\ \A c \in Callers :
          Blocked(c) =>
              \E d \in Callers :
                  /\ d # c
                  /\ ~Blocked(d)
                  /\ pc[d] \notin {"idle", "panicked"}

\* a connect waits for the write lock while another caller runs its hops
\* with the mutex and the read lock
C36_Witness ==
    \E c \in Callers, d \in Callers :
        /\ pc[c] = "ct_hop" /\ mutex = c /\ c \in rw_readers
        /\ pc[d] = "connect"

\* C25: every idle session sits under the key equal to its own chain, a
\* session's chain never changes, the session a caller got from connect_to
\* has the chain it asked for, and the lookup of connect_to touches no list
\* but the one of that chain.
C25_KeyedByOwnChain ==
    /\ [](/\ \A k \in DOMAIN connections : \A i \in 1..Len(connections[k]) :
                sess[connections[k][i]].remote = k
          /\ \A c \in Callers : conn[c] # 0 => sess[conn[c]].remote = remote[c])
    /\ [][/\ \A id \in 1..Len(sess) : sess'[id].remote = sess[id].remote
          /\ \A c \in Callers :
                ConnectToLookup(c) =>
                    \A k \in DOMAIN connections :
                        k # remote[c] => /\ k \in DOMAIN connections'
                                         /\ connections'[k] = connections[k]]_vars

\* a caller holds a session it took out of the pool while a session of
\* another chain sits idle
C25_Witness ==
    \E c \in Callers :
        /\ pc[c] \in {"or_read", "wr_write_file"}
        /\ conn[c] # 0
        /\ ~sess[conn[c]].lastOk
        /\ \E k \in DOMAIN connections : k # remote[c] /\ Len(connections[k]) > 0

(***************************************************************************)
(* Claims about Part::parse (SpecParse)                                    *)
(***************************************************************************)
\* whether the hop asks for a password: a hop without the flag does not
NeedsPassword(part) ==
    IF "needs_password" \in DOMAIN part THEN part.needs_password ELSE FALSE

\* the documented grammar of one segment, by its tokens
IsPortToken(t) == ParseU16(t).ok
SshForm(a) ==
    /\ a[1] = T_ssh
    /\ Len(a) >= 2
    /\ a[2] # <<>>
    /\ \/ Len(a) = 2
       \/ Len(a) = 3 /\ (IsPortToken(a[3]) \/ a[3] = T_askpw)
       \/ Len(a) = 4 /\ IsPortToken(a[3]) /\ a[4] = T_askpw
SshFormPort(a) ==
    IF Len(a) >= 3 /\ IsPortToken(a[3]) THEN ParseU16(a[3]).val ELSE 22
SshFormAskpw(a) == a[Len(a)] = T_askpw /\ Len(a) >= 3

\* C10: ssh:<host>[:<port>][:askpw] parses to an Ssh hop with that host, the
\* given port or 22, and needs_password exactly when askpw is present; sudo,
\* sudo:askpw, docker:<id> and bash parse to their variants; any other first
\* token is a parse error.
C10_ParseGrammar ==
    parse_out.done =>
        LET a == Split(parse_in, Colon)
            part == parse_out.part
        IN  /\ SshForm(a) =>
                  /\ parse_out.ok
                  /\ part.kind = "Ssh"
                  /\ AsStr(part.destination, string_pool) = a[2]
                  /\ part.port = SshFormPort(a)
                  /\ NeedsPassword(part) = SshFormAskpw(a)
            /\ (a = <<T_sudo>> \/ a = <<T_sudo, T_askpw>>) =>
                  parse_out.ok /\ part.kind = "Sudo"
            /\ (Len(a) = 2 /\ a[1] = T_docker /\ a[2] # <<>>) =>
                  /\ parse_out.ok
                  /\ part.kind = "Docker"
                  /\ AsStr(part.container, string_pool) = a[2]
            /\ a = <<T_bash>> => parse_out.ok /\ part.kind = "Bash"
            /\ a[1] \notin {T_ssh, T_sudo, T_docker, T_bash} => ~parse_out.ok

(***************************************************************************)
(* The hex codec on its own: read_hex renders, write_to decodes            *)
(***************************************************************************)
\* the bytes given: runs of every length that walk through the byte values,
\* every single byte, and every pair of a few bytes
HexRun(seed, n) == [i \in 1..n |-> (seed + 61 * (i - 1)) % 256]
HexSeeds == {0, 9, 16, 31, 100, 127, 128, 139, 160, 171, 200, 240, 255}
HexInputs ==
    {HexRun(seed, n) : seed \in HexSeeds, n \in 0..MaxHexLen}
        \cup {<<b>> : b \in 0..255}
        \cup {<<a, b>> : a \in {0, 10, 255}, b \in {0, 32, 171}}

InitHexCodec ==
    /\ hex_in \in HexInputs
    /\ hex_text = <<>>
    /\ hex_out = [done |-> FALSE, stage |-> "given"]

\* Buffer::read_hex on the bytes given
HexReadFrom ==
    /\ hex_out.stage = "given"
    /\ hex_text' = ReadHex(hex_in)
    /\ hex_out' = [done |-> FALSE, stage |-> "read"]
    /\ UNCHANGED <<hex_in, OffHex>>

\* Buffer::write_to of that rope under ContentTransform::Hex
HexWriteTo ==
    /\ hex_out.stage = "read"
    /\ LET r == HexDecode(hex_text)
       IN  hex_out' = [done |-> TRUE, stage |-> "written", ok |-> r.ok,
                       bytes |-> r.bytes, row |-> r.row, col |-> r.col]
    /\ UNCHANGED <<hex_in, hex_text, OffHex>>

NextHex == HexReadFrom \/ HexWriteTo

InitAllHex == InitPool /\ InitCallers /\ InitParse /\ InitFs /\ InitBuffer /\ InitHexCodec /\ InitAux

SpecHex == InitAllHex /\ [][NextHex]_vars

\* C5: for every byte sequence, also the empty one and lengths that are not
\* a multiple of 16, decoding the hex dump read_hex rendered gives the bytes
\* back.
C5_HexRoundTrip == hex_out.done => hex_out.ok /\ hex_out.bytes = hex_in

\* a dump of more than one row whose last row is not full was decoded
C5_Witness == hex_out.done /\ Len(hex_in) > 16 /\ Len(hex_in) % 16 # 0

\* the two lowercase hex digits of every byte, in order
HexDigitsOf(bytes) ==
    [k \in 1..(2 * Len(bytes)) |->
        LET b == bytes[(k + 1) \div 2]
            d == IF k % 2 = 1 THEN b \div 16 ELSE b % 16
        IN  IF d < 10 THEN 48 + d ELSE 87 + d]
NotBlank(cp) == cp \notin {32, 10}
RowEnds(chars) == {i \in 1..Len(chars) : chars[i] = 10}

\* C16: read_hex renders n bytes as ceil(n / 16) rows, each ended by a line
\* feed (the last one too), with every byte as two lowercase hex digits in
\* input order and 16 bytes in every row but possibly the last.
C16_HexRows ==
    hex_out.stage # "given" =>
        /\ SelectSeq(hex_text, NotBlank) = HexDigitsOf(hex_in)
        /\ Cardinality(RowEnds(hex_text)) = (Len(hex_in) + 15) \div 16
        /\ Len(hex_in) > 0 => hex_text[Len(hex_text)] = 10
        /\ \A i \in RowEnds(hex_text) :
               Len(SelectSeq(SubSeq(hex_text, 1, i), NotBlank)) % 32 = 0
                   \/ i = Len(hex_text)

(***************************************************************************)
(* Saving a hex dump the user has edited: write_to on any short text       *)
(***************************************************************************)
\* what the user left in the Buffer: the digits '1' and 'f', the letter 'g',
\* spaces and line feeds
HexTextChars == {49, 102, 103, 32, 10}
HexTexts == UNION {[1..n -> HexTextChars] : n \in 0..MaxHexText}

\* a Hex Buffer (opened from the byte ff) with the text edited to anything
InitHexText ==
    /\ hex_in = <<255>>
    /\ hex_text \in HexTexts
    /\ hex_out = [done |-> FALSE, stage |-> "read"]

NextHexText == HexWriteTo

InitAllHexText ==
    InitPool /\ InitCallers /\ InitParse /\ InitFs /\ InitBuffer /\ InitHexText /\ InitAux

SpecHexText == InitAllHexText /\ [][NextHexText]_vars

\* the characters of a text that are neither whitespace nor hex digits
BadAt(chars) ==
    {i \in 1..Len(chars) :
        chars[i] \notin {9, 10, 11, 12, 13, 32}
            /\ chars[i] \notin (48..57) \cup (97..102) \cup (65..70)}
FirstBad(chars) == CHOOSE i \in BadAt(chars) : \A j \in BadAt(chars) : i <= j
FeedsBefore(chars, i) == {j \in 1..(i - 1) : chars[j] = 10}
LastFeedBefore(chars, i) ==
    IF FeedsBefore(chars, i) = {} THEN 0
    ELSE CHOOSE j \in FeedsBefore(chars, i) : \A k \in FeedsBefore(chars, i) : k <= j

\* C14: saving a hex text with a character that is neither whitespace nor a
\* hex digit fails, and the error names the first such character by its
\* 1-based row (line feeds before it, plus one) and column (characters since
\* the last line feed).
C14_HexErrorPosition ==
    (hex_out.done /\ BadAt(hex_text) # {}) =>
        /\ ~hex_out.ok
        /\ hex_out.row = Cardinality(FeedsBefore(hex_text, FirstBad(hex_text))) + 1
        /\ hex_out.col = FirstBad(hex_text) - LastFeedBefore(hex_text, FirstBad(hex_text))

\* the save of a text whose first bad character is at line 3, column 5
C14_Witness ==
    /\ hex_out.done /\ ~hex_out.ok
    /\ hex_out.row = 3 /\ hex_out.col = 5
    /\ hex_text[7] = 103

\* the digits of a text, in order, by value
DigitValue(cp) ==
    IF cp \in 48..57 THEN cp - 48 ELSE IF cp \in 97..102 THEN cp - 87 ELSE cp - 55
DigitsOf(chars) ==
    LET keep(cp) == cp \notin {9, 10, 11, 12, 13, 32}
        ds == SelectSeq(chars, keep)
    IN  [k \in 1..Len(ds) |-> DigitValue(ds[k])]
PairedBytes(ds) ==
    [k \in 1..((Len(ds) + 1) \div 2) |->
        16 * ds[2 * k - 1] + (IF 2 * k <= Len(ds) THEN ds[2 * k] ELSE 0)]

\* C15: the save of a hex text skips whitespace wherever it stands, pairs
\* the digits in order with the first as the high nibble, and writes a lone
\* last digit d as the byte 16 * d.
C15_HexDecodePairs ==
    (hex_out.done /\ BadAt(hex_text) = {}) =>
        hex_out.ok /\ hex_out.bytes = PairedBytes(DigitsOf(hex_text))

\* a text with whitespace inside a pair and a lone last digit was saved
C15_Witness ==
    /\ hex_out.done /\ hex_out.ok
    /\ Len(DigitsOf(hex_text)) = 3
    /\ hex_text[1] = 49 /\ hex_text[2] = 10 /\ hex_text[3] = 102
    /\ hex_out.bytes = <<31, 16>>

(***************************************************************************)
(* Buffer on a local file: open_local, the text edits, write, and the      *)
(* other processes that create, remove and chmod the file in between       *)
(***************************************************************************)
FilePath == "a.txt"

\* the files the other processes put at the path: empty, text, bytes that
\* are not UTF-8, the NBT file
FileSamples == {<<>>, <<97>>, <<255>>, NbtFileBytes}

\* the characters typed: a hex digit and a letter that is not one
FileChars == {49, 103}

Perms == [r : BOOLEAN, w : BOOLEAN]

InitFile ==
    /\ \E present \in BOOLEAN, bytes \in FileSamples :
         /\ inodes = IF present THEN <<bytes>> ELSE <<>>
         /\ path_ino = Len(inodes)
    /\ perm \in Perms

Result(o, e) == [op |-> o, ok |-> e = "", err |-> e]

\* the Buffer open_local returns for an open file
Opened(ino, readonly) ==
    LET read == ReadFrom(inodes[ino], FilePath)
    IN  /\ contents' = read.contents
        /\ syntax' = read.syntax
        /\ ty' = read.ty
        /\ name' = FilePath
        /\ inner' = [kind |-> "File", inner |-> ino, readonly |-> readonly]
        /\ modified' = FALSE
        /\ buf_result' = Result("open", "")
        /\ bpc' = "none"

\* open_local, the read-write attempt
OpenLocalRw ==
    /\ bpc = "none" /\ ~panicked
    /\ IF path_ino = 0
       THEN /\ buf_result' = Result("open", "NotFound")
            /\ UNCHANGED <<name, bpc, contents, modified, ty, inner, syntax>>
       ELSE IF ~(perm.r /\ perm.w)
       THEN /\ bpc' = "open_ro"
            /\ UNCHANGED <<name, contents, modified, ty, inner, syntax, buf_result>>
       ELSE Opened(path_ino, FALSE)
    /\ UNCHANGED <<overflow_checks, last_call, n_edits, panicked>>
    /\ UNCHANGED fsVars
    /\ UNCHANGED OffBuffer

\* open_local, the read-only attempt and the new file after it
OpenLocalRo ==
    /\ bpc = "open_ro"
    /\ IF path_ino = 0
       THEN LET read == ReadFrom(<<>>, FilePath)
            IN  /\ contents' = read.contents
                /\ syntax' = read.syntax
                /\ ty' = read.ty
                /\ name' = FilePath
                /\ inner' = [kind |-> "NewFile", inner |-> FilePath]
                /\ modified' = FALSE
                /\ buf_result' = Result("open", "")
                /\ bpc' = "none"
       ELSE IF ~perm.r
       THEN /\ buf_result' = Result("open", "PermissionDenied")
            /\ bpc' = "none"
            /\ UNCHANGED <<name, contents, modified, ty, inner, syntax>>
       ELSE Opened(path_ino, TRUE)
    /\ UNCHANGED <<overflow_checks, last_call, n_edits, panicked>>
    /\ UNCHANGED fsVars
    /\ UNCHANGED OffBuffer

\* the Buffer as replace_text_at sees it
Self == [contents |-> contents, modified |-> modified, syntax |-> syntax,
         panicked |-> panicked]

\* insert_char_at, replace_char_at and the removal of one character
FileEdit ==
    /\ bpc = "none" /\ ~panicked
    /\ inner.kind # "Scratch"
    /\ \E start \in 0..Len(contents), width \in 0..1, text \in {<<>>} \cup {<<ch>> : ch \in FileChars} :
         LET after == ReplaceTextAt(Self, start, start + width, text, overflow_checks)
         IN  /\ Len(contents) + Len(text) <= MaxRope
             /\ contents' = after.contents
             /\ modified' = after.modified
             /\ syntax' = after.syntax
             /\ panicked' = after.panicked
    /\ buf_result' = Result("edit", "")
    /\ UNCHANGED <<overflow_checks, name, bpc, ty, inner, last_call, n_edits>>
    /\ UNCHANGED fsVars
    /\ UNCHANGED OffBuffer

\* write: the check `if readonly { bail!("readonly") }`
WriteRefused_Never(in) == FALSE

WriteRefused(in) == in.readonly

\* mutant: the file is overwritten from its start and keeps its length
WriteToFile_NoTruncate(ino, files) ==
    LET out == WriteTo(contents, ty)
    IN  [ok |-> out.ok,
         inodes |-> [files EXCEPT ![ino] =
                        IF out.ok THEN out.bytes \o Drop(@, Len(out.bytes)) ELSE @]]

\* write_to_file on an open file: truncate, then encode and write
WriteToFile(ino, files) ==
    LET out == WriteTo(contents, ty)
    IN  [ok |-> out.ok,
         inodes |-> [files EXCEPT ![ino] = out.bytes]]

\* mutant: the create does not mind a file at the path and opens it
CreateCollides_Never == FALSE

\* write on a NewFile: create_new(true) finds a file at the path
CreateCollides == path_ino # 0

\* Buffer::write
Write ==
    /\ bpc = "none" /\ ~panicked
    /\ (inner.kind = "NewFile" /\ path_ino = 0) => Len(inodes) < MaxInodes
    /\ IF inner.kind = "File"
       THEN IF WriteRefused(inner)
            THEN /\ buf_result' = Result("write", "readonly")
                 /\ UNCHANGED <<inodes, path_ino, perm, modified, inner>>
            ELSE LET w == WriteToFile(inner.inner, inodes)
                 IN  /\ inodes' = w.inodes
                     /\ modified' = IF w.ok THEN FALSE ELSE modified
                     /\ buf_result' = Result("write", IF w.ok THEN "" ELSE "encode")
                     /\ UNCHANGED <<path_ino, perm, inner>>
       ELSE IF inner.kind = "NewFile"
       THEN IF CreateCollides
            THEN /\ buf_result' = Result("write", "AlreadyExists")
                 /\ UNCHANGED <<inodes, path_ino, perm, modified, inner>>
            ELSE LET ino == Len(inodes) + 1
                     w == WriteToFile(ino, Append(inodes, <<>>))
                 IN  /\ inodes' = w.inodes
                     /\ path_ino' = ino
                     /\ perm' = [r |-> TRUE, w |-> TRUE]
                     /\ modified' = IF w.ok THEN FALSE ELSE modified
                     /\ inner' = IF w.ok
                                 THEN [kind |-> "File", inner |-> ino, readonly |-> FALSE]
                                 ELSE inner
                     /\ buf_result' = Result("write", IF w.ok THEN "" ELSE "encode")
       ELSE /\ inner.kind = "Scratch"
            /\ inner' = [inner EXCEPT !.show_welcome = FALSE]
            /\ buf_result' = Result("write", "no file path set")
            /\ UNCHANGED <<inodes, path_ino, perm, modified>>
    /\ UNCHANGED <<overflow_checks, name, bpc, contents, ty, syntax, last_call,
                   n_edits, panicked>>
    /\ UNCHANGED OffBuffer

\* another process creates the file
EnvCreate ==
    /\ path_ino = 0 /\ Len(inodes) < MaxInodes
    /\ \E bytes \in FileSamples, p \in Perms :
         /\ inodes' = Append(inodes, bytes)
         /\ path_ino' = Len(inodes) + 1
         /\ perm' = p
    /\ UNCHANGED bufVars
    /\ UNCHANGED OffBuffer

\* another process removes the file; the handle the Buffer holds keeps its
\* bytes, a file nobody holds open is gone
EnvRemove ==
    /\ path_ino # 0
    /\ path_ino' = 0
    /\ inodes' = IF inner.kind = "File" /\ inner.inner = path_ino THEN inodes
                 ELSE SubSeq(inodes, 1, path_ino - 1)
    /\ UNCHANGED perm
    /\ UNCHANGED bufVars
    /\ UNCHANGED OffBuffer

\* another process changes what this process may do with the file
EnvChmod ==
    /\ path_ino # 0
    /\ \E p \in Perms : p # perm /\ perm' = p
    /\ UNCHANGED <<path_ino, inodes>>
    /\ UNCHANGED bufVars
    /\ UNCHANGED OffBuffer

NextFile ==
    \/ OpenLocalRw
    \/ OpenLocalRo
    \/ FileEdit
    \/ Write
    \/ EnvCreate
    \/ EnvRemove
    \/ EnvChmod

InitAllFile == InitPool /\ InitCallers /\ InitParse /\ InitFile /\ InitBuffer /\ InitHex /\ InitAux

SpecFile == InitAllFile /\ [][NextFile]_vars

\* C18: in open_local a permission-denied error moves on to the next step
\* at either attempt (from the read-write attempt to the read-only one, from
\* the read-only attempt to the new file), and a not-found error fails the
\* open only at the read-only attempt.
C18_OpenFallbacks ==
    [][/\ (OpenLocalRw /\ path_ino # 0 /\ ~(perm.r /\ perm.w)) => bpc' = "open_ro"
       /\ (OpenLocalRw /\ path_ino = 0) => bpc' = "open_ro"
       /\ (OpenLocalRo /\ path_ino # 0 /\ ~perm.r)
            => buf_result' = Result("open", "") /\ inner'.kind = "NewFile"
       /\ (OpenLocalRo /\ path_ino = 0) => buf_result' = Result("open", "NotFound")]_vars

\* C19: write on a NewFile Buffer fails when a file is at the path, and
\* leaves the files, the Buffer's inner and its dirty flag as they were; when
\* it succeeds the file exists with the encoded contents, inner is a
\* read-write File and the dirty flag is clear.
C19_ExclusiveCreate ==
    [][/\ (Write /\ inner.kind = "NewFile" /\ path_ino # 0)
            => /\ ~buf_result'.ok
               /\ UNCHANGED <<inodes, path_ino, inner, modified>>
       /\ (Write /\ inner.kind = "NewFile" /\ path_ino = 0)
            => /\ buf_result' = Result("write", "")
               /\ path_ino' # 0
               /\ inodes'[path_ino'] = Utf8Encode(contents)
               /\ inner' = [kind |-> "File", inner |-> path_ino', readonly |-> FALSE]
               /\ ~modified']_vars

\* a NewFile Buffer with unsaved text met a file at its path on write
C19_Witness ==
    /\ inner.kind = "NewFile" /\ modified /\ contents # <<>>
    /\ path_ino # 0
    /\ buf_result = Result("write", "AlreadyExists")

\* what a save writes for the Buffer's contents under its transform
EncodingOf(chars, transform) ==
    IF transform = "Utf8" THEN Utf8Encode(chars)
    ELSE IF transform = "Hex" THEN PairedBytes(DigitsOf(chars))
    ELSE NbtFileBytes

\* C20: after a successful write on an open read-write file the file holds
\* exactly the encoding of the contents, with nothing left of what it held
\* before.
C20_WriteReplacesFile ==
    [][(Write /\ inner.kind = "File" /\ ~inner.readonly /\ buf_result'.ok)
          => inodes'[inner.inner] = EncodingOf(contents, ty)]_vars

\* a hex dump (of a file that held at least one byte) was emptied and saved:
\* the file is empty
C20_Witness ==
    /\ inner.kind = "File" /\ ~inner.readonly
    /\ ty = "Hex" /\ contents = <<>>
    /\ buf_result = Result("write", "")
    /\ inodes[inner.inner] = <<>>

(***************************************************************************)
(* open_local on files of any short content: what read_from makes of them  *)
(***************************************************************************)
\* the bytes of the files: ASCII, the bytes of a two-byte character, the gzip
\* magic, and a byte no UTF-8 text holds
OpenBytes == {8, 31, 97, 139, 169, 195, 255}
OpenInputs == UNION {[1..n -> OpenBytes] : n \in 0..MaxFileLen}

InitOpen ==
    /\ \E bytes \in OpenInputs : inodes = <<bytes>>
    /\ path_ino = 1
    /\ perm \in {p \in Perms : p.r}

NextOpen == OpenLocalRw \/ OpenLocalRo

InitAllOpen == InitPool /\ InitCallers /\ InitParse /\ InitOpen /\ InitBuffer /\ InitHex /\ InitAux

SpecOpen == InitAllOpen /\ [][NextOpen]_vars

\* the texts whose UTF-8 encoding can be made of OpenBytes
OpenTexts == UNION {[1..n -> {8, 31, 97, 203, 233}] : n \in 0..MaxFileLen}
IsText(bytes) == \E t \in OpenTexts : Utf8Encode(t) = bytes
\* a gzip header whose payload decodes as NBT
IsNbt(bytes) == bytes = NbtFileBytes

\* C17: read_from never fails, and the Buffer is PlainText whenever the
\* file's bytes are valid text, StructuredBinary only when they are not text
\* and are a compressed NBT file that decodes, and HexDump in every other
\* case.
C17_ReadFromPriority ==
    (bpc = "none" /\ buf_result.op = "open") =>
        /\ buf_result.ok
        /\ inner.kind = "File"
        /\ LET bytes == inodes[inner.inner]
           IN  /\ IsText(bytes) => ty = "Utf8" /\ Utf8Encode(contents) = bytes
               /\ (~IsText(bytes) /\ IsNbt(bytes)) => ty = "Nbt"
               /\ (~IsText(bytes) /\ ~IsNbt(bytes)) =>
                      ty = "Hex" /\ contents = ReadHex(bytes)

\* files of each kind were opened: one that begins with the gzip magic and
\* does not decode is a hex dump
C17_Witness ==
    /\ bpc = "none" /\ buf_result.op = "open"
    /\ inodes[1] = <<31, 139, 97>>
    /\ ty = "Hex"

\* C6: open_local of a path where no file exists returns a new-file Document
\* with empty contents and a clear dirty flag, and leaves the path without a
\* file.
C6_MissingPathOpensNewFile ==
    [][(OpenLocalRw /\ path_ino = 0)
          => /\ buf_result'.ok
             /\ inner'.kind = "NewFile"
             /\ contents' = <<>>
             /\ ~modified'
             /\ path_ino' = 0]_vars

\* C7: a file the process may read and not write opens read-only; text edits
\* on the read-only Buffer are applied; every write on it fails with
\* "readonly" and leaves the file's bytes, the contents and the dirty flag
\* as they were.
C7_ReadonlyFile ==
    [][/\ (OpenLocalRw /\ path_ino # 0 /\ perm.r /\ ~perm.w) => bpc' = "open_ro"
       /\ (OpenLocalRo /\ path_ino # 0 /\ perm.r)
            => /\ buf_result' = Result("open", "")
               /\ inner' = [kind |-> "File", inner |-> path_ino, readonly |-> TRUE]
               /\ contents' = ReadFrom(inodes[path_ino], FilePath).contents
       /\ (FileEdit /\ inner.kind = "File" /\ inner.readonly)
            => \E start \in 0..Len(contents), width \in 0..1,
                  text \in {<<>>} \cup {<<ch>> : ch \in FileChars} :
                 /\ start + width <= Len(contents)
                 /\ contents' = SubSeq(contents, 1, start) \o text
                                  \o SubSeq(contents, start + width + 1, Len(contents))
                 /\ modified' = (modified \/ width > 0 \/ text # <<>>)
       /\ (Write /\ inner.kind = "File" /\ inner.readonly)
            => /\ buf_result' = Result("write", "readonly")
               /\ UNCHANGED <<inodes, contents, modified>>]_vars

\* a read-only Buffer was edited and its write was refused
C7_Witness ==
    /\ inner.kind = "File" /\ inner.readonly
    /\ modified /\ contents # ReadFrom(inodes[inner.inner], FilePath).contents
    /\ buf_result = Result("write", "readonly")

(***************************************************************************)
(* The text edits on an open Buffer, with and without a syntax tracker     *)
(***************************************************************************)
\* 'a', a line feed, and a character of two bytes
EditChars == {97, 10, 233}

EditPaths == {"a.rs", "a.txt"}

Texts(n) == UNION {[1..k -> EditChars] : k \in 0..n}

\* a Buffer as open_local returns it for a text file
InitEdit ==
    /\ \E path \in EditPaths, text \in Texts(MaxRope - 1) :
         /\ name = path
         /\ inodes = <<Utf8Encode(text)>>
         /\ contents = ReadFrom(Utf8Encode(text), path).contents
         /\ syntax = ReadFrom(Utf8Encode(text), path).syntax
         /\ ty = ReadFrom(Utf8Encode(text), path).ty
    /\ path_ino = 1
    /\ perm = [r |-> TRUE, w |-> TRUE]
    /\ inner = [kind |-> "File", inner |-> 1, readonly |-> FALSE]
    /\ overflow_checks \in BOOLEAN
    /\ bpc = "none"
    /\ modified = FALSE
    /\ last_call = NoCall
    /\ n_edits = 0
    /\ buf_result = Result("open", "")
    /\ panicked = FALSE

\* one call of replace_text_at(start..end, text), however it was reached
Edited(method, start, end, text) ==
    LET after == ReplaceTextAt(Self, start, end, text, overflow_checks)
    IN  /\ ~panicked /\ n_edits < MaxEdits
        /\ Len(contents) + Len(text) <= MaxRope
        /\ contents' = after.contents
        /\ modified' = after.modified
        /\ syntax' = after.syntax
        /\ panicked' = after.panicked
        /\ last_call' = [made |-> TRUE, method |-> method, start |-> start,
                         end |-> end, text |-> text, before |-> contents]
        /\ n_edits' = n_edits + 1
        /\ buf_result' = Result("edit", "")
        /\ UNCHANGED <<overflow_checks, name, bpc, ty, inner>>
        /\ UNCHANGED fsVars
        /\ UNCHANGED OffBuffer

\* insert_text_at, insert_char_at
InsertText ==
    \E cursor \in 0..(Len(contents) + 1), text \in Texts(MaxText) :
        Edited("insert", cursor, cursor, text)

\* overwrite_text_at, overwrite_char_at
OverwriteText ==
    \E cursor \in 0..(Len(contents) + 1), text \in Texts(MaxText) :
        Edited("overwrite", cursor, LenBytes(text), text)

\* replace_text_at, replace_char_at
ReplaceText ==
    \E start \in 0..(Len(contents) + 1), end \in 0..(Len(contents) + 1),
       text \in Texts(MaxText) :
        Edited("replace", start, end, text)

NextEdit == InsertText \/ OverwriteText \/ ReplaceText

InitAllEdit == InitPool /\ InitCallers /\ InitParse /\ InitEdit /\ InitHex /\ InitAux

SpecEdit == InitAllEdit /\ [][NextEdit]_vars

\* C8: while a syntax tracker is present, the byte length the tracker was
\* told of (its initial parse and every edit since) is the byte length of
\* the contents.
C8_TrackerLengthIsRopeLength ==
    (syntax.present /\ ~panicked) => syntax.told_len = LenBytes(contents)

\* the edit a replacement of [start, end) by text is: start and old end in
\* the contents before it, new end in the contents after it
ExpectedEdit(before, after, start, end, text) ==
    [reported |-> TRUE,
     start_byte |-> CharToByte(before, start),
     old_end_byte |-> CharToByte(before, end),
     new_end_byte |-> CharToByte(before, start) + LenBytes(text),
     start_position |-> PointAt(before, CharToByte(before, start)),
     old_end_position |-> PointAt(before, CharToByte(before, end)),
     new_end_position |-> PointAt(after, CharToByte(before, start) + LenBytes(text))]

\* C9: after replace_text_at(range, text) with a valid range on a Buffer
\* with a syntax tracker, the edit reported to the tracker has the start and
\* old end of the range in the contents before the call, the new end at
\* start plus the text's bytes, and each as line and byte column.
C9_ReportedEdit ==
    (/\ last_call.made /\ syntax.present /\ ~panicked
     /\ last_call.start <= last_call.end
     /\ last_call.end <= Len(last_call.before))
        => syntax.edit = ExpectedEdit(last_call.before, contents, last_call.start,
                                      last_call.end, last_call.text)

\* a call that names a place in the rope and brings text: the cursor (or the
\* whole range of a replace) lies inside the contents and the text is not
\* empty
EditCallIsValid ==
    /\ last_call.made
    /\ last_call.start <= Len(last_call.before)
    /\ last_call.text # <<>>
    /\ last_call.method = "replace" => last_call.end <= Len(last_call.before)

\* C21: after an insert, overwrite or replace call the dirty flag is set,
\* and it stays set through further edits (no write succeeds in between).
C21_EditSetsDirty == (EditCallIsValid /\ ~panicked) => modified

\* C28: overwrite_text_at(cursor, text) puts text over the characters in
\* [cursor, cursor + |text|), clipped to the end of the rope, and leaves the
\* characters before and after them as they were.
C28_OverwriteInPlace ==
    (/\ last_call.made /\ last_call.method = "overwrite" /\ ~panicked
     /\ last_call.start <= Len(last_call.before))
        => contents = SubSeq(last_call.before, 1, last_call.start)
                        \o last_call.text
                        \o SubSeq(last_call.before,
                                  last_call.start + Len(last_call.text) + 1,
                                  Len(last_call.before))

\* C31: replace_text_at, and insert and overwrite through it, does not
\* panic on a Buffer with a syntax tracker for any range with
\* start <= end <= len_chars and any text.
C31_EditNeverPanics ==
    (/\ last_call.made /\ syntax.present
     /\ last_call.start <= last_call.end
     /\ last_call.end <= Len(last_call.before))
        => ~panicked

\* C37: a call of replace_text_at whose range starts or ends beyond the
\* rope's length in characters changes nothing: the contents, the dirty
\* flag and what the tree was told stay as they were, and nothing panics.
C37_OutOfRangeIsNoOp ==
    [][(/\ n_edits' # n_edits
        /\ \/ last_call'.start > Len(contents)
           \/ last_call'.end > Len(contents))
          => /\ contents' = contents
             /\ modified' = modified
             /\ syntax' = syntax
             /\ panicked' = panicked]_vars

\* a replace beyond the end was called on an edited Buffer with a tracker
\* and left it as it was
C37_Witness ==
    /\ last_call.made
    /\ last_call.method = "replace"
    /\ last_call.start > Len(last_call.before)
    /\ last_call.text # <<>>
    /\ syntax.present
    /\ modified
    /\ contents = last_call.before
    /\ ~panicked

\* C30: a write on a read-write File that fails while it encodes the
\* contents (a bad hex token, text that is not SNBT) leaves the file's bytes
\* as they were.
C30_FailedSaveKeepsFile ==
    [][(Write /\ inner.kind = "File" /\ ~inner.readonly /\ ~buf_result'.ok)
          => inodes' = inodes]_vars

(***************************************************************************)
(* Buffer::open's choice between the remote and the local route            *)
(***************************************************************************)
\* str::rsplit_once(sep): the text before and after the last sep, None when
\* there is no sep
RSplitOnce(s, sep) ==
    IF \E i \in 1..Len(s) : s[i] = sep
    THEN LET i == CHOOSE i \in 1..Len(s) :
                      s[i] = sep /\ \A j \in (i + 1)..Len(s) : s[j] # sep
         IN  [some |-> TRUE, before |-> SubSeq(s, 1, i - 1), after |-> Drop(s, i)]
    ELSE [some |-> FALSE, before |-> <<>>, after |-> <<>>]

\* Buffer::open up to the route it takes: open_remote calls connect on the
\* text before the last ':', whose parse error it returns; the rest of the
\* remote route is StartOpenRemote's, the local one OpenLocalRw's
OpenRoute(pool, path) ==
    LET r == RSplitOnce(path, Colon)
    IN  IF r.some
        THEN LET c == ParseChain(pool, r.before)
             IN  [route |-> IF c.ok THEN "remote" ELSE "error",
                  chain |-> c.parts, file |-> r.after, pool |-> c.pool]
        ELSE [route |-> "local", chain |-> <<>>, file |-> path, pool |-> pool]

\* the decimal digits Display writes for an unsigned number
RECURSIVE FormatDecimal(_)
FormatDecimal(n) ==
    IF n < 10 THEN <<Digits[n + 1]>>
    ELSE FormatDecimal(n \div 10) \o <<Digits[(n % 10) + 1]>>

\* what path_of writes for one part
PathOfPart(pool, part) ==
    IF part.kind = "Ssh"
    THEN T_ssh \o <<":">> \o AsStr(part.destination, pool) \o <<":">>
            \o FormatDecimal(part.port) \o <<":">>
    ELSE IF part.kind = "Docker"
    THEN T_ssh \o <<":">> \o AsStr(part.container, pool) \o <<":">>
    ELSE IF part.kind = "Sudo" THEN T_sudo \o <<":">>
    ELSE T_bash \o <<":">>

\* ConnectionPool::path_of: what is written for each part, then the path
RECURSIVE PathOf(_, _, _)
PathOf(pool, chain, path) ==
    IF Len(chain) = 0 THEN path
    ELSE PathOfPart(pool, chain[1]) \o PathOf(pool, Tail(chain), path)

\* a chain with its interned strings written out
ChainText(chain, pool) ==
    [i \in 1..Len(chain) |->
        IF chain[i].kind = "Ssh"
        THEN <<"Ssh", AsStr(chain[i].destination, pool), chain[i].port>>
        ELSE IF chain[i].kind = "Docker"
        THEN <<"Docker", AsStr(chain[i].container, pool)>>
        ELSE <<chain[i].kind>>]

NoFrom == [given |-> FALSE]

\* the paths opened: a file name alone, or a prefix, a ':' and a file name
T_x == <<"x">>
T_dir_x == <<"/", "e", "/", "x">>
RouteFiles == {T_x, T_dir_x, <<>>}
RoutePrefixes ==
    { S_ssh_a, S_ssh_a \o <<":">> \o T_port, S_ssh_a \o <<"|">> \o T_bash,
      T_sudo, T_docker \o <<":", "a">> \o <<"|">> \o S_ssh_aa,
      T_foo, T_ssh, <<"C">>, <<>>, T_bash \o <<"|">> \o T_foo }
RoutePaths ==
    RouteFiles \cup {p \o <<":">> \o f : p \in RoutePrefixes, f \in RouteFiles}

Opens == IF open_route.done THEN open_route.n ELSE 0

BufferOpen(path) ==
    /\ Opens < MaxOpens
    /\ LET o == OpenRoute(string_pool, path)
       IN  /\ open_route' = [done |-> TRUE, n |-> Opens + 1, path |-> path,
                             route |-> o.route, chain |-> o.chain, file |-> o.file,
                             from |-> NoFrom]
           /\ string_pool' = o.pool
    /\ UNCHANGED OffRoute

\* the chains the file popup browses, as connect parsed them from these
PopupChainStrings ==
    { S_ssh_a, S_ssh_a \o <<":">> \o T_port, T_docker \o <<":", "a">>, T_sudo, T_bash,
      S_ssh_a \o <<"|">> \o T_docker \o <<":", "a", "a">>, T_sudo \o <<"|">> \o T_bash }

\* Popup::event on a file of a remote directory: the popup holds the chain
\* of an earlier connect, and editor.open is given path_of(remote, path)
PopupOpen(str, file) ==
    /\ Opens < MaxOpens
    /\ LET c == ParseChain(string_pool, str)
           path == PathOf(c.pool, c.parts, file)
           o == OpenRoute(c.pool, path)
       IN  /\ c.ok
           /\ open_route' = [done |-> TRUE, n |-> Opens + 1, path |-> path,
                             route |-> o.route, chain |-> o.chain, file |-> o.file,
                             from |-> [given |-> TRUE, chain |-> c.parts, file |-> file]]
           /\ string_pool' = o.pool
    /\ UNCHANGED OffRoute

NextRoute ==
    \/ \E path \in RoutePaths : BufferOpen(path)
    \/ \E str \in PopupChainStrings, file \in {T_x, T_dir_x} : PopupOpen(str, file)

InitAllRoute == InitAll

SpecRoute == InitAllRoute /\ [][NextRoute]_vars

\* a chain string every segment of which Part::parse accepts
ValidChain(s) == ParseChain(<<>>, s).ok

\* C26: Buffer::open takes the remote route exactly when the text before the
\* last ':' of its argument is a chain, the remote path being the text after
\* it; every other argument, also one with a ':' after something that is no
\* chain, is opened as a local path.
C26_RouteByChainPrefix ==
    open_route.done =>
        LET r == RSplitOnce(open_route.path, Colon)
        IN  IF r.some /\ ValidChain(r.before)
            THEN open_route.route = "remote" /\ open_route.file = r.after
            ELSE open_route.route = "local" /\ open_route.file = open_route.path

\* C32: the string path_of makes of a chain and a remote path is, given to
\* Buffer::open, split and parsed back into that chain and that path.
C32_PathOfRoundTrip ==
    (open_route.done /\ open_route.from.given) =>
        /\ open_route.route = "remote"
        /\ ChainText(open_route.chain, string_pool)
              = ChainText(open_route.from.chain, string_pool)
        /\ open_route.file = open_route.from.file

(***************************************************************************)
(* editor/view.rs: the digits of the line numbers                          *)
(***************************************************************************)
\* bits of usize and of the u16 position
UsizeBits == 64
U16Mod == 65536

\* the numbers given: all below 2^20, so that every quotient below is exact
DigitNums == {0, 5, 9, 10, 15, 16, 255, 256, 1000, 65535, 99999}

DigitChars ==
    <<"0", "1", "2", "3", "4", "5", "6", "7", "8", "9", "a", "b", "c", "d", "e", "f">>

\* char::from_digit(d, radix).unwrap_or(' ')
FromDigit(d, radix) == IF d < radix THEN DigitChars[d + 1] ELSE " "

\* num / base^k for a power that is representable: k divisions by base
RECURSIVE DivPow(_, _, _)
DivPow(num, base, k) ==
    IF k = 0 \/ num = 0 THEN num ELSE DivPow(num \div base, base, k - 1)

Panic == "panic"

\* nth_digit_base16: nth << 2 keeps the low 16 bits; a shift of num by 64 or
\* more panics where overflow is checked and else uses the amount mod 64
nth_digit_base16(num, nth, checks) ==
    LET amount == (nth * 4) % U16Mod
    IN  IF amount >= UsizeBits /\ checks THEN Panic
        ELSE LET n == DivPow(num, 2, amount % UsizeBits)
             IN  IF n = 0 /\ nth # 0 THEN " " ELSE FromDigit(n % 16, 16)

\* nth_digit_base10: 10usize.pow(nth) overflows from nth = 20 on; it panics
\* where overflow is checked and else wraps to 2^nth * (5^nth mod 2^(64-nth)),
\* which is above every number of DigitNums for nth < 64 and 0 from 64 on,
\* where the division panics
nth_digit_base10(num, nth, checks) ==
    IF nth >= 20 /\ checks THEN Panic
    ELSE IF nth >= UsizeBits THEN Panic
    ELSE LET n == IF nth >= 20 THEN 0 ELSE DivPow(num, 10, nth)
         IN  IF n = 0 /\ nth # 0 THEN " " ELSE FromDigit(n % 10, 10)

CallBase16(num, nth, checks) ==
    /\ digit' = [done |-> TRUE, base |-> 16, num |-> num, nth |-> nth,
                 overflow_checks |-> checks,
                 out |-> nth_digit_base16(num, nth, checks)]
    /\ UNCHANGED OffDigit

CallBase10(num, nth, checks) ==
    /\ digit' = [done |-> TRUE, base |-> 10, num |-> num, nth |-> nth,
                 overflow_checks |-> checks,
                 out |-> nth_digit_base10(num, nth, checks)]
    /\ UNCHANGED OffDigit

NextDigit ==
    \E num \in DigitNums, nth \in 0..MaxNth, checks \in BOOLEAN :
        \/ CallBase16(num, nth, checks)
        \/ CallBase10(num, nth, checks)

InitAllDigit == InitAll

SpecDigit == InitAllDigit /\ [][NextDigit]_vars

WaitPolls == 30000

\* what one exp_string / exp_any of the shell, spawned with a timeout of 0 ms,
\* comes back with: the prompt marker was read, the extra pattern was read
\* (exp_any only), nothing matched yet, or another error (end of stream, io)
PollOutcomes(incorrect) ==
    IF incorrect THEN {"prompt", "needle", "timeout", "error"}
    ELSE {"prompt", "timeout", "error"}

\* mutant: a poll that timed out returns success
OnPoll_TimeoutIsOk(outcome) ==
    IF outcome \in {"prompt", "needle", "timeout"} THEN "ok" ELSE "err"

\* the match on the poll's result: Timeout goes on with the loop, everything
\* else is returned, Ok or Err as it is
OnPoll(outcome) ==
    IF outcome = "timeout" THEN "continue"
    ELSE IF outcome \in {"prompt", "needle"} THEN "ok"
    ELSE "err"

\* wait(incorrect) is called
InitWaitCall ==
    wt \in {[pc |-> "loop", incorrect |-> i, polls |-> 0, last |-> "none",
             ret |-> "none"] : i \in BOOLEAN}

\* one round of the loop: the poll, the match, the sleep of 1 ms
WaitPoll(outcome) ==
    /\ wt.pc = "loop"
    /\ wt.polls < WaitPolls
    /\ outcome \in PollOutcomes(wt.incorrect)
    /\ LET then == OnPoll(outcome)
       IN  wt' = IF then = "continue"
                 THEN [wt EXCEPT !.polls = @ + 1, !.last = outcome]
                 ELSE [wt EXCEPT !.polls = @ + 1, !.last = outcome,
                                 !.pc = "returned", !.ret = then]
    /\ UNCHANGED OffWait

\* the loop ran out: bail!("Expected \"__sh_prompt\" but got \"\" ..")
WaitBail ==
    /\ wt.pc = "loop"
    /\ wt.polls = WaitPolls
    /\ wt' = [wt EXCEPT !.pc = "returned", !.ret = "timed_out"]
    /\ UNCHANGED OffWait

NextWait ==
    \/ \E outcome \in {"prompt", "needle", "timeout", "error"} : WaitPoll(outcome)
    \/ WaitBail

InitAllWait ==
    InitPool /\ InitCallers /\ InitParse /\ InitFs /\ InitBuffer /\ InitHex
        /\ InitRoute /\ InitDigit /\ InitWaitCall /\ InitShell /\ InitNoEditor

\* the thread inside wait keeps running
SpecWait == InitAllWait /\ [][NextWait]_vars /\ WF_vars(NextWait)

\* C22: wait always returns; it returns success at the poll that read the
\* prompt marker or the extra pattern and at no other, returns the error of a
\* poll that failed otherwise than by timing out at that poll, and returns
\* the timeout error after exactly WaitPolls polls that all timed out.
C22_WaitTerminates ==
    /\ <>(wt.pc = "returned")
    /\ [](wt.pc = "returned" =>
            /\ wt.ret = "ok" <=> wt.last \in {"prompt", "needle"}
            /\ wt.ret = "err" <=> wt.last = "error"
            /\ wt.ret = "timed_out" <=> (wt.last = "timeout" /\ wt.polls = WaitPolls)
            /\ wt.last = "needle" => wt.incorrect)
    /\ [](wt.pc = "loop" => (wt.polls <= WaitPolls /\ wt.last \in {"none", "timeout"}))

\* the call came back with the timeout error after the last round
C22_Witness ==
    wt.pc = "returned" /\ wt.ret = "timed_out" /\ wt.polls = WaitPolls

(***************************************************************************)
(* tramp.rs: one new Connection in connect_to, from the spawn of the local *)
(* shell through the hops.  A wait is one step here: it comes back with    *)
(* the text read before the prompt marker, with the extra pattern, or with *)
(* an error (the timeout is one of them).                                  *)
(***************************************************************************)
\* the chains connect_to is given, as connect parses them
ShellChainStrings ==
    { T_docker \o <<":", "a">> \o <<"|">> \o S_ssh_a,
      S_ssh_a \o <<"|">> \o T_bash \o <<"|">> \o T_docker \o <<":", "a", "a">>,
      T_sudo \o <<"|">> \o T_docker \o <<":", "a">>,
      T_bash,
      T_docker \o <<":", "a">> }

\* what the shell prints before a prompt marker: the output of a command ..
ShellOutputs == {<<>>, <<"x">>, <<" ", "x", "\n">>}
\* .. and the answer to the exit-status probe
StatusTexts == {<<"0">>, <<"0", "\n">>, <<" ", "0">>, <<"1", "\n">>, <<"0", "0">>, <<>>}

IsSpace(ch) == ch \in {" ", "\n", "\t", "\r"}

\* str::trim: the text without its leading and trailing whitespace
RECURSIVE TrimStr(_)
TrimStr(t) ==
    IF Len(t) = 0 THEN t
    ELSE IF IsSpace(t[1]) THEN TrimStr(Tail(t))
    ELSE IF IsSpace(t[Len(t)]) THEN TrimStr(SubSeq(t, 1, Len(t) - 1))
    ELSE t

\* the command line a hop writes
LaunchOf(part, pool) ==
    IF part.kind = "Ssh"
    THEN [prog |-> "ssh", port |-> part.port, target |-> AsStr(part.destination, pool)]
    ELSE IF part.kind = "Sudo"
    THEN [prog |-> "sudo", port |-> 0, target |-> <<>>]
    ELSE [prog |-> "docker exec", port |-> 0, target |-> AsStr(part.container, pool)]

NoCmd == [prog |-> "", port |-> 0, target |-> <<>>]
NoChk == [done |-> FALSE]

\* mutant: the loop over the hops runs from the last hop to the first
HopAt_Reversed(chain, i) == chain[Len(chain) + 1 - i]

\* for part in conn.remote.clone().iter(): the i-th part
HopAt(chain, i) == chain[i]

\* mutant: the two texts change places
CheckExit_Swapped(res, exit_code) ==
    IF TrimStr(res) # <<"0">>
    THEN [ok |-> FALSE, value |-> <<>>, text |-> TrimStr(exit_code)]
    ELSE [ok |-> TRUE, value |-> exit_code, text |-> <<>>]

\* the end of run_cmd_checked and of run_cmd_askpw_checked: bail! with the
\* trimmed output unless the trimmed status is "0", else Ok(result)
CheckExit(res, exit_code) ==
    IF TrimStr(exit_code) # <<"0">>
    THEN [ok |-> FALSE, value |-> <<>>, text |-> TrimStr(res)]
    ELSE [ok |-> TRUE, value |-> res, text |-> <<>>]

\* connect_to went past the idle map with one of the chains
InitShellCall ==
    sh \in {[pc |-> "spawn", chain |-> ParseChain(<<>>, str).parts,
             pool |-> ParseChain(<<>>, str).pool, hop |-> 1, log |-> <<>>,
             out |-> <<>>, status |-> <<>>, chk |-> NoChk,
             ret |-> "none", err |-> "none", err_text |-> <<>>, conn |-> "none"] :
                str \in ShellChainStrings}

\* the `?` on an Err: connect_to returns it, the Connection is dropped
ShFail(kind, text) ==
    sh' = [sh EXCEPT !.pc = "done", !.ret = "err", !.err = kind, !.err_text = text,
                     !.conn = IF sh.conn = "none" THEN "none" ELSE "dropped"]

\* the log with one more entry: what was written or read, in which hop (0
\* before the loop), and for a status whether it passed the test
Logged(e, what, cmd, ok) ==
    sh.log \o <<[e |-> e, hop |-> IF sh.pc \in {"spawn", "wait0"} THEN 0 ELSE sh.hop,
                 what |-> what, cmd |-> cmd, ok |-> ok]>>

\* rexpect::spawn of the local shell
ConnSpawn(ok) ==
    /\ sh.pc = "spawn"
    /\ IF ok
       THEN sh' = [sh EXCEPT !.pc = "wait0", !.conn = "live",
                             !.log = Logged("spawn", "sh", NoCmd, TRUE)]
       ELSE ShFail("spawn", <<>>)
    /\ UNCHANGED OffShell

\* conn.wait(None)? after the spawn
ConnFirstWait(ok) ==
    /\ sh.pc = "wait0"
    /\ IF ok
       THEN sh' = [sh EXCEPT !.pc = "hop", !.log = Logged("wait", "prompt", NoCmd, TRUE)]
       ELSE ShFail("wait", <<>>)
    /\ UNCHANGED OffShell

\* the head of the loop over the hops and its match: a Bash part is passed
\* over, the other parts enter their hop function, and after the last part
\* connect_to returns Ok(conn)
ConnNextHop ==
    /\ sh.pc = "hop"
    /\ IF sh.hop > Len(sh.chain)
       THEN sh' = [sh EXCEPT !.pc = "done", !.ret = "ok", !.conn = "returned"]
       ELSE LET part == HopAt(sh.chain, sh.hop)
            IN  IF part.kind = "Bash" THEN sh' = [sh EXCEPT !.hop = @ + 1]
                ELSE IF part.kind = "Docker"
                THEN sh' = [sh EXCEPT !.pc = "chk_cmd", !.chk = NoChk]
                ELSE sh' = [sh EXCEPT !.pc = "ask_cmd"]
    /\ UNCHANGED OffShell

WritePcs == {"ask_cmd", "ask_probe", "chk_cmd", "chk_probe", "dk_stty1", "dk_stty2"}

AfterWrite(l) ==
    CASE l = "ask_cmd" -> "ask_wait1"
      [] l = "ask_probe" -> "ask_wait2"
      [] l = "chk_cmd" -> "chk_probe"
      [] l = "chk_probe" -> "chk_wait1"
      [] l = "dk_stty1" -> "dk_stty2"
      [] l = "dk_stty2" -> "dk_wait1"

Written(l) ==
    CASE l \in {"ask_cmd", "chk_cmd"} -> "launch"
      [] l \in {"ask_probe", "chk_probe"} -> "echo $?"
      [] l = "dk_stty1" -> "stty -echoctl"
      [] l = "dk_stty2" -> "stty -echo"

\* run_cmd: the command and a newline are written and flushed, or the write
\* fails and the `?` of the caller returns the error
RunCmd(ok) ==
    /\ sh.pc \in WritePcs
    /\ IF ok
       THEN sh' = [sh EXCEPT
                !.pc = AfterWrite(sh.pc),
                !.log = Logged("write", Written(sh.pc),
                               IF Written(sh.pc) = "launch"
                               THEN LaunchOf(HopAt(sh.chain, sh.hop), sh.pool)
                               ELSE NoCmd, TRUE)]
       ELSE /\ ShFail("io", <<>>)
    /\ UNCHANGED OffShell

\* run_cmd_checked: let (result, _) = self.wait(None)?
CheckedWaitResult(ok, text) ==
    /\ sh.pc = "chk_wait1"
    /\ IF ok
       THEN sh' = [sh EXCEPT !.pc = "chk_wait2", !.out = text,
                             !.log = Logged("wait", "result", NoCmd, TRUE)]
       ELSE ShFail("wait", <<>>)
    /\ UNCHANGED OffShell

\* run_cmd_checked: let (exit_code, _) = self.wait(None)?, the test of the
\* trimmed status and the return; hop_docker goes on with stty on Ok
CheckedWaitStatus(ok, text) ==
    /\ sh.pc = "chk_wait2"
    /\ IF ok
       THEN LET c == CheckExit(sh.out, text)
                chk == [done |-> TRUE, ok |-> c.ok, value |-> c.value,
                        text |-> c.text, out |-> sh.out, status |-> text,
                        at |-> Len(sh.log) + 1]
                log == Logged("wait", "status", NoCmd, c.ok)
            IN  IF c.ok
                THEN sh' = [sh EXCEPT !.pc = "dk_stty1", !.status = text,
                                      !.chk = chk, !.log = log]
                ELSE sh' = [sh EXCEPT !.pc = "done", !.ret = "err", !.err = "failed",
                                      !.err_text = c.text, !.conn = "dropped",
                                      !.status = text, !.chk = chk, !.log = log]
       ELSE ShFail("wait", <<>>)
    /\ UNCHANGED OffShell

\* run_cmd_askpw_checked: let (result, askpw) = self.wait(Some(needle))?, and
\* todo!() when the needle was read
AskpwWaitResult(outcome, text) ==
    /\ sh.pc = "ask_wait1"
    /\ outcome \in {"prompt", "needle", "err"}
    /\ IF outcome = "prompt"
       THEN sh' = [sh EXCEPT !.pc = "ask_probe", !.out = text,
                             !.log = Logged("wait", "result", NoCmd, TRUE)]
       ELSE IF outcome = "needle"
       THEN sh' = [sh EXCEPT !.pc = "done", !.ret = "panic", !.conn = "dropped",
                             !.log = Logged("wait", "askpw", NoCmd, TRUE)]
       ELSE ShFail("wait", <<>>)
    /\ UNCHANGED OffShell

\* run_cmd_askpw_checked: the wait for the status, the test and the return;
\* hop_ssh / hop_sudo return and the loop goes on
AskpwWaitStatus(ok, text) ==
    /\ sh.pc = "ask_wait2"
    /\ IF ok
       THEN LET c == CheckExit(sh.out, text)
                log == Logged("wait", "status", NoCmd, c.ok)
            IN  IF c.ok
                THEN sh' = [sh EXCEPT !.pc = "hop", !.hop = @ + 1, !.status = text,
                                      !.log = log]
                ELSE sh' = [sh EXCEPT !.pc = "done", !.ret = "err", !.err = "failed",
                                      !.err_text = c.text, !.conn = "dropped",
                                      !.status = text, !.log = log]
       ELSE ShFail("wait", <<>>)
    /\ UNCHANGED OffShell

\* hop_docker: the two waits after the stty commands, then Ok(())
DockerWait(ok) ==
    /\ sh.pc \in {"dk_wait1", "dk_wait2"}
    /\ IF ok
       THEN sh' = [sh EXCEPT !.pc = IF sh.pc = "dk_wait1" THEN "dk_wait2" ELSE "hop",
                             !.hop = IF sh.pc = "dk_wait1" THEN @ ELSE @ + 1,
                             !.log = Logged("wait", "prompt", NoCmd, TRUE)]
       ELSE ShFail("wait", <<>>)
    /\ UNCHANGED OffShell

NextShell ==
    \/ \E ok \in BOOLEAN : ConnSpawn(ok)
    \/ \E ok \in BOOLEAN : ConnFirstWait(ok)
    \/ ConnNextHop
    \/ \E ok \in BOOLEAN : RunCmd(ok)
    \/ \E ok \in BOOLEAN, text \in ShellOutputs : CheckedWaitResult(ok, text)
    \/ \E ok \in BOOLEAN, text \in StatusTexts : CheckedWaitStatus(ok, text)
    \/ \E o \in {"prompt", "needle", "err"}, text \in ShellOutputs : AskpwWaitResult(o, text)
    \/ \E ok \in BOOLEAN, text \in StatusTexts : AskpwWaitStatus(ok, text)
    \/ \E ok \in BOOLEAN : DockerWait(ok)

InitAllShell ==
    InitPool /\ InitCallers /\ InitParse /\ InitFs /\ InitBuffer /\ InitHex
        /\ InitRoute /\ InitDigit /\ InitWait /\ InitShellCall /\ InitNoEditor

SpecShell == InitAllShell /\ [][NextShell]_vars

\* what the entries of a piece of the log are
EventsOf(l) == [i \in 1..Len(l) |-> <<l[i].e, l[i].what>>]

\* C23: when run_cmd_checked returns after both waits, it has written the
\* command, then the exit-status probe, then waited twice, the first wait
\* giving the output and the second the status; it returns the output if and
\* only if the trimmed status is "0", and else the command-failure error with
\* the (trimmed) output.
C23_RunCmdChecked ==
    sh.chk.done =>
        /\ sh.chk.at >= 4
        /\ EventsOf(SubSeq(sh.log, sh.chk.at - 3, sh.chk.at))
              = << <<"write", "launch">>, <<"write", "echo $?">>,
                   <<"wait", "result">>, <<"wait", "status">> >>
        /\ \A i \in (sh.chk.at - 3)..sh.chk.at : sh.log[i].hop = sh.log[sh.chk.at].hop
        /\ sh.chk.ok <=> (TrimStr(sh.chk.status) = <<"0">>)
        /\ sh.chk.ok => sh.chk.value = sh.chk.out
        /\ ~sh.chk.ok => (/\ sh.ret = "err" /\ sh.err = "failed"
                          /\ sh.err_text = TrimStr(sh.chk.out))

\* run_cmd_checked returned the failure of a command that printed something,
\* read from a status that needed the trim
C23_Witness ==
    /\ sh.chk.done
    /\ ~sh.chk.ok
    /\ sh.chk.status = <<"1", "\n">>
    /\ sh.chk.out = <<" ", "x", "\n">>
    /\ sh.err_text = <<"x">>

\* the positions of the hops of the chain that are no Bash hop, in order
RECURSIVE HopsToRun(_, _)
HopsToRun(chain, from) ==
    IF from > Len(chain) THEN <<>>
    ELSE IF chain[from].kind = "Bash" THEN HopsToRun(chain, from + 1)
    ELSE <<from>> \o HopsToRun(chain, from + 1)

\* the positions in the log at which a launch command was written, in order
RECURSIVE LaunchesFrom(_)
LaunchesFrom(p) ==
    IF p > Len(sh.log) THEN <<>>
    ELSE IF sh.log[p].what = "launch" THEN <<p>> \o LaunchesFrom(p + 1)
    ELSE LaunchesFrom(p + 1)

\* the hop of log entry q had its prompt seen and its status tested and
\* passed before log entry p
HopCheckedBetween(q, p) ==
    \E r1 \in (q + 1)..(p - 1), r2 \in (q + 1)..(p - 1) :
        /\ r1 < r2
        /\ sh.log[r1].e = "wait" /\ sh.log[r1].hop = sh.log[q].hop
        /\ sh.log[r2].e = "wait" /\ sh.log[r2].what = "status"
        /\ sh.log[r2].hop = sh.log[q].hop /\ sh.log[r2].ok

\* C24: past the idle map connect_to spawns one shell and waits for its
\* prompt; the launch commands are those of the hops that are no Bash hop, in
\* the order of the chain; a launch is written only after the prompt of the
\* local shell and after the hop before it had its prompt seen and its status
\* tested; Ok(conn) is returned only after every hop passed, and on an error
\* the Connection is dropped, so that nobody can put it into the pool.
C24_HopsInChainOrder ==
    LET launches == LaunchesFrom(1)
        todo == HopsToRun(sh.chain, 1)
    IN  /\ Len(sh.log) >= 1 =>
              (sh.log[1].e = "spawn" /\ \A p \in 2..Len(sh.log) : sh.log[p].e # "spawn")
        /\ Len(sh.log) >= 2 => (sh.log[2].e = "wait" /\ sh.log[2].what = "prompt")
        /\ Len(launches) <= Len(todo)
        /\ \A k \in 1..Len(launches) :
              /\ sh.log[launches[k]].hop = todo[k]
              /\ sh.log[launches[k]].cmd = LaunchOf(sh.chain[todo[k]], sh.pool)
              /\ launches[k] > 2
              /\ k > 1 => HopCheckedBetween(launches[k - 1], launches[k])
        /\ \A p \in 1..Len(sh.log) :
              sh.log[p].e = "write" => sh.chain[sh.log[p].hop].kind # "Bash"
        /\ sh.conn = "returned" <=> sh.ret = "ok"
        /\ sh.ret = "ok" =>
              /\ Len(launches) = Len(todo)
              /\ \A k \in 1..Len(launches) : HopCheckedBetween(launches[k], Len(sh.log) + 1)
        /\ sh.ret = "err" => (sh.pc = "done" /\ sh.conn \in {"none", "dropped"})

\* a chain of three hops with a Bash hop in the middle is connected
C24_Witness ==
    /\ sh.ret = "ok"
    /\ Len(sh.chain) = 3
    /\ sh.chain[2].kind = "Bash"
    /\ Len(LaunchesFrom(1)) = 2

(***************************************************************************)
(* editor/actions.rs, editor/view.rs: the editor's buffers and its view    *)
(***************************************************************************)
MaxBuffers == 3
MaxEdRope == 2
EdChars == {97, 10}
EdRopes == UNION {[1..n -> EdChars] : n \in 0..MaxEdRope}

\* Buffer::new: the empty scratch buffer
ScratchBuffer == [contents |-> <<>>, modified |-> FALSE, inner |-> "Scratch", name |-> 0]

\* a Buffer opened from a file, before any edit
FileBuffer(i, rope) == [contents |-> rope, modified |-> FALSE, inner |-> "File", name |-> i]

\* BufferView::new
NewView(e, buffer_index) == [e EXCEPT !.buffer_index = buffer_index, !.cursor = 0]

\* Editor::current / current_mut: the buffer the view selects
Current(e) == e.buffers[e.buffer_index + 1]

\* the editor with some files open, the first one selected
InitEditor ==
    \E n \in 1..MaxBuffers : \E ropes \in [1..n -> EdRopes] :
        ed = [buffers |-> [i \in 1..n |-> FileBuffer(i, ropes[i])],
              buffer_index |-> 0, cursor |-> 0, mode |-> "Normal",
              should_close |-> FALSE, status_is_error |-> FALSE, status |-> "",
              panicked |-> FALSE]

\* the event loop takes the next event while the editor is open
Running == ed # NoResult /\ ~ed.should_close /\ ~ed.panicked

\* TypeChar::run in command mode: Enter sets the mode to normal and runs the
\* action the command names
CommandRuns == Running /\ ed.mode = "Normal"

\* the error status an action leaves
WithError(e, text) == [e EXCEPT !.status_is_error = TRUE, !.status = text]

\* Buffer::write, as far as the editor sees it: a scratch buffer has no path;
\* a file is written and the buffer is clean, or the write fails
BufferWrite(b, io_ok) ==
    IF b.inner = "Scratch" THEN [ok |-> FALSE, err |-> "no file path set", buffer |-> b]
    ELSE IF io_ok THEN [ok |-> TRUE, err |-> "", buffer |-> [b EXCEPT !.modified = FALSE]]
    ELSE [ok |-> FALSE, err |-> "io error", buffer |-> b]

\* popup.rs: Enter in the buffer picker
PickBuffer(selected) ==
    /\ Running
    /\ selected < Len(ed.buffers)
    /\ ed' = NewView(ed, selected)
    /\ UNCHANGED OffEditor

\* BufferPrev::run: the index after it
BufferPrevIndex(buffer_index, n) == (buffer_index + 1) % n

\* BufferNext::run
BufferNext ==
    /\ CommandRuns
    /\ ed' = [ed EXCEPT !.buffer_index = (ed.buffer_index + 1) % Len(ed.buffers)]
    /\ UNCHANGED OffEditor

\* BufferPrev::run
BufferPrev ==
    /\ CommandRuns
    /\ ed' = [ed EXCEPT !.buffer_index = BufferPrevIndex(ed.buffer_index, Len(ed.buffers))]
    /\ UNCHANGED OffEditor

Min(a, b) == IF a < b THEN a ELSE b

\* BufferClose::run
BufferCloseOf(e) ==
    IF Current(e).modified THEN WithError(e, "unsaved changes")
    ELSE IF Len(e.buffers) = 1
        THEN [e EXCEPT !.buffers = <<ScratchBuffer>>, !.buffer_index = 0]
    ELSE LET popped == SubSeq(e.buffers, 1, Len(e.buffers) - 1)
         IN  [e EXCEPT !.buffers = popped,
                       !.buffer_index = Min(e.buffer_index, Len(popped) - 1)]

BufferClose ==
    /\ CommandRuns
    /\ ed' = BufferCloseOf(ed)
    /\ UNCHANGED OffEditor

\* Quit::run
Quit ==
    /\ CommandRuns
    /\ ed' = IF Current(ed).modified
             THEN WithError(ed, "unsaved changes, type :q! to quit without saving")
             ELSE [ed EXCEPT !.should_close = TRUE]
    /\ UNCHANGED OffEditor

\* QuitForce::run
QuitForce ==
    /\ CommandRuns
    /\ ed' = [ed EXCEPT !.should_close = TRUE]
    /\ UNCHANGED OffEditor

\* Write::run
EdWrite(io_ok) ==
    /\ CommandRuns
    /\ LET w == BufferWrite(Current(ed), io_ok)
           e == [ed EXCEPT !.buffers[ed.buffer_index + 1] = w.buffer]
       IN  ed' = IF w.ok THEN e ELSE WithError(e, w.err)
    /\ UNCHANGED OffEditor

\* WriteQuit::run
WriteQuit(io_ok) ==
    /\ CommandRuns
    /\ LET w == BufferWrite(Current(ed), io_ok)
           e == [ed EXCEPT !.buffers[ed.buffer_index + 1] = w.buffer]
       IN  ed' = IF ~Current(ed).modified THEN [ed EXCEPT !.should_close = TRUE]
                 ELSE IF ~w.ok THEN WithError(e, w.err)
                 ELSE [e EXCEPT !.should_close = TRUE]
    /\ UNCHANGED OffEditor

\* WriteQuitForce::run
WriteQuitForce(io_ok) ==
    /\ CommandRuns
    /\ LET w == BufferWrite(Current(ed), io_ok)
           e == [ed EXCEPT !.buffers[ed.buffer_index + 1] = w.buffer]
       IN  ed' = IF ~w.ok THEN WithError(e, w.err)
                 ELSE [e EXCEPT !.should_close = TRUE]
    /\ UNCHANGED OffEditor

Max(a, b) == IF a > b THEN a ELSE b

\* the view after a cursor function: the rope index it met was in range, or
\* ropey panicked
Moved(e, cursor) == [e EXCEPT !.cursor = cursor]
EdPanic(e) == [e EXCEPT !.panicked = TRUE]

\* Rope::line(line_idx).len_chars()
LineLenChars(rope, line_idx) == LineToChar(rope, line_idx + 1) - LineToChar(rope, line_idx)

\* BufferView::jump_cursor_x with wraps: the cursor after it
JumpCursorX(rope, cursor, delta_x) ==
    IF delta_x = 0 THEN cursor ELSE Min(Max(cursor + delta_x, 0), Len(rope))

\* BufferView::jump_cursor_y for delta_y # 0 and a cursor inside the rope
JumpCursorY(rope, cursor, delta_y) ==
    LET cursor_line == CharToLine(rope, cursor)
        line_start == LineToChar(rope, cursor_line)
        cursor_x == cursor - line_start
        target_line == Min(Max(cursor_line + delta_y, 0), LenLines(rope) - 1)
        target_line_len == Max(LineLenChars(rope, target_line) - 1, 0)
        target_line_start == LineToChar(rope, target_line)
    IN  target_line_start + Min(target_line_len, cursor_x)

\* BufferView::jump_cursor on the current buffer
JumpCursor(e, delta_x, delta_y) ==
    LET rope == Current(e).contents
        x == JumpCursorX(rope, e.cursor, delta_x)
    IN  IF Len(rope) = 0 THEN Moved(e, 0)
        ELSE IF delta_y = 0 THEN Moved(e, x)
        ELSE IF x > Len(rope) THEN EdPanic(e)
        ELSE Moved(e, JumpCursorY(rope, x, delta_y))

\* the last character of the cursor's line that is not its line break, the
\* start of the line when it has no such character
LastCharOfLine(rope, cursor) ==
    LET line == CharToLine(rope, cursor)
        line_start == LineToChar(rope, line)
        line_len == LineLenChars(rope, line)
        last == line_start + line_len
        text_len == IF last > line_start /\ IsBreakEnd(rope, last)
                    THEN line_len - 1 ELSE line_len
    IN  line_start + Max(text_len - 1, 0)

\* BufferView::jump_line_end for a cursor inside the rope
JumpLineEndOf(rope, cursor) ==
    LET line == CharToLine(rope, cursor)
        line_len == LineLenChars(rope, line)
    IN  Min(Len(rope), Max(LineToChar(rope, line) + line_len - 2, 0))

\* BufferView::find: the offset from `from` of the first ch, -1 for None
ViewFind(rope, from, ch) ==
    LET hits == {n \in 0..(Len(rope) - from - 1) : rope[from + n + 1] = ch}
    IN  IF from > Len(rope) \/ hits = {} THEN -1
        ELSE CHOOSE n \in hits : \A m \in hits : n <= m

\* BufferView::rfind: the offset back from `from` of the last ch, -1 for None
RFind(rope, from, ch) ==
    LET hits == {n \in 0..from : rope[from - n + 1] = ch}
    IN  IF from + 1 > Len(rope) \/ hits = {} THEN -1
        ELSE CHOOSE n \in hits : \A m \in hits : n <= m

\* Escape::run
Escape ==
    /\ Running
    /\ ed' = [ed EXCEPT !.cursor = IF ed.mode = "Append" THEN Max(@ - 1, 0) ELSE @,
                        !.mode = "Normal"]
    /\ UNCHANGED OffEditor

\* MoveLeft::run
MoveLeft ==
    /\ Running
    /\ ed' = JumpCursor(ed, -1, 0)
    /\ UNCHANGED OffEditor

\* MoveRight::run
MoveRight ==
    /\ Running
    /\ ed' = JumpCursor(ed, 1, 0)
    /\ UNCHANGED OffEditor

\* MoveUp::run
MoveUp ==
    /\ Running
    /\ ed' = JumpCursor(ed, 0, -1)
    /\ UNCHANGED OffEditor

\* MoveDown::run
MoveDown ==
    /\ Running
    /\ ed' = JumpCursor(ed, 0, 1)
    /\ UNCHANGED OffEditor

\* MoveLineBeg::run: jump_line_beg
MoveLineBeg ==
    /\ Running
    /\ LET rope == Current(ed).contents
       IN  ed' = IF ed.cursor > Len(rope) THEN EdPanic(ed)
                 ELSE Moved(ed, LineToChar(rope, CharToLine(rope, ed.cursor)))
    /\ UNCHANGED OffEditor

\* MoveLineEnd::run: jump_line_end
MoveLineEnd ==
    /\ Running
    /\ LET rope == Current(ed).contents
       IN  ed' = IF ed.cursor > Len(rope) THEN EdPanic(ed)
                 ELSE Moved(ed, JumpLineEndOf(rope, ed.cursor))
    /\ UNCHANGED OffEditor

\* MoveBufferBeg::run: jump_beg
MoveBufferBeg ==
    /\ Running
    /\ ed' = Moved(ed, 0)
    /\ UNCHANGED OffEditor

\* MoveBufferEnd::run: jump_end
MoveBufferEnd ==
    /\ Running
    /\ ed' = Moved(ed, Max(Len(Current(ed).contents) - 1, 0))
    /\ UNCHANGED OffEditor

\* SwitchToInsert::run
SwitchToInsert ==
    /\ Running
    /\ ed' = [ed EXCEPT !.mode = "Insert"]
    /\ UNCHANGED OffEditor

\* SwitchToAppend::run
SwitchToAppend ==
    /\ Running
    /\ ed' = JumpCursor([ed EXCEPT !.mode = "Append"], 1, 0)
    /\ UNCHANGED OffEditor

\* Mode::Insert { .. }
InsertMode(e) == e.mode \in {"Insert", "Append"}

\* TypeChar::run in insert mode
TypeChar(ch) ==
    /\ Running
    /\ Len(Current(ed).contents) < MaxEdRope
    /\ LET b == Current(ed)
           typed == [ed EXCEPT !.buffers[ed.buffer_index + 1] =
                        [b EXCEPT !.contents = RopeInsert(@, ed.cursor, <<ch>>),
                                  !.modified = TRUE]]
       IN  ed' = IF ~InsertMode(ed) THEN ed
                 ELSE IF ed.cursor > Len(b.contents) THEN EdPanic(ed)
                 ELSE JumpCursor(typed, 1, 0)
    /\ UNCHANGED OffEditor

\* Delete::run
Delete ==
    /\ Running
    /\ LET b == Current(ed)
           removed == [ed EXCEPT !.buffers[ed.buffer_index + 1] =
                          [b EXCEPT !.contents = RopeRemove(@, ed.cursor, ed.cursor + 1),
                                    !.modified = TRUE]]
       IN  ed' = IF ed.cursor = 0 \/ ed.cursor + 1 > Len(b.contents) THEN ed ELSE removed
    /\ UNCHANGED OffEditor

\* Backspace::run in insert mode
Backspace ==
    /\ Running
    /\ LET b == Current(ed)
           removed == [ed EXCEPT !.buffers[ed.buffer_index + 1] =
                          [b EXCEPT !.contents = RopeRemove(@, ed.cursor - 1, ed.cursor),
                                    !.modified = TRUE]]
       IN  ed' = IF ~InsertMode(ed) \/ ed.cursor = 0 THEN ed
                 ELSE IF ed.cursor > Len(b.contents) THEN EdPanic(ed)
                 ELSE JumpCursor(removed, -1, 0)
    /\ UNCHANGED OffEditor

\* JumpForwardsTo::run
JumpForwardsTo(ch) ==
    /\ Running
    /\ LET n == ViewFind(Current(ed).contents, ed.cursor + 1, ch)
       IN  ed' = [ed EXCEPT !.cursor = IF n = -1 THEN @ ELSE @ + n + 1,
                            !.mode = "Normal"]
    /\ UNCHANGED OffEditor

\* JumpBackwardsTo::run
JumpBackwardsTo(ch) ==
    /\ Running
    /\ LET n == RFind(Current(ed).contents, ed.cursor - 1, ch)
       IN  ed' = IF ed.cursor = 0 THEN [ed EXCEPT !.mode = "Normal"]
                 ELSE [ed EXCEPT !.cursor = IF n = -1 THEN @ ELSE @ - n - 1,
                                 !.mode = "Normal"]
    /\ UNCHANGED OffEditor

\* BufferView::render_text_buffer: char_to_line(cursor) is its first rope
\* index with the cursor
Render ==
    /\ Running
    /\ ed' = IF ed.cursor > Len(Current(ed).contents) THEN EdPanic(ed) ELSE ed
    /\ UNCHANGED OffEditor

NextEditor ==
    \/ BufferNext
    \/ BufferPrev
    \/ BufferClose
    \/ Quit
    \/ QuitForce
    \/ \E io_ok \in BOOLEAN : EdWrite(io_ok)
    \/ \E io_ok \in BOOLEAN : WriteQuit(io_ok)
    \/ \E io_ok \in BOOLEAN : WriteQuitForce(io_ok)
    \/ \E selected \in 0..(MaxBuffers - 1) : PickBuffer(selected)
    \/ Escape
    \/ MoveLeft
    \/ MoveRight
    \/ MoveUp
    \/ MoveDown
    \/ MoveLineBeg
    \/ MoveLineEnd
    \/ MoveBufferBeg
    \/ MoveBufferEnd
    \/ SwitchToInsert
    \/ SwitchToAppend
    \/ \E ch \in EdChars : TypeChar(ch)
    \/ Delete
    \/ Backspace
    \/ \E ch \in EdChars : JumpForwardsTo(ch)
    \/ \E ch \in EdChars : JumpBackwardsTo(ch)
    \/ Render

InitAllEditor ==
    InitPool /\ InitCallers /\ InitParse /\ InitFs /\ InitBuffer /\ InitHex
        /\ InitRoute /\ InitDigit /\ InitWait /\ InitShell /\ InitEditor

SpecEditor == InitAllEditor /\ [][NextEditor]_vars

\* the sequence without its i-th element
RemoveAt(seq, i) == SubSeq(seq, 1, i - 1) \o SubSeq(seq, i + 1, Len(seq))

\* C33: buffer-close on a modified current buffer only sets the error status
\* "unsaved changes"; otherwise it removes the current buffer and no other
\* (the only buffer is replaced by an empty scratch buffer), and buffer_index
\* is a valid index afterwards.
C33_CloseRemovesCurrent ==
    [][BufferClose =>
         IF Current(ed).modified THEN ed' = WithError(ed, "unsaved changes")
         ELSE /\ ed'.buffers = IF Len(ed.buffers) = 1 THEN <<ScratchBuffer>>
                                ELSE RemoveAt(ed.buffers, ed.buffer_index + 1)
              /\ ed'.buffer_index \in 0..(Len(ed'.buffers) - 1)]_vars

\* some open buffer has unsaved changes
Unsaved(e) == \E i \in 1..Len(e.buffers) : e.buffers[i].modified

\* C34: q and x set should_close only when no open buffer has unsaved
\* changes afterwards; q on unsaved changes leaves should_close false and
\* sets an error status.
C34_QuitKeepsUnsaved ==
    [][(Quit \/ \E io_ok \in BOOLEAN : WriteQuit(io_ok)) =>
         /\ ed'.should_close => ~Unsaved(ed')
         /\ (Quit /\ Unsaved(ed)) => ~ed'.should_close /\ ed'.status_is_error]_vars

\* C35: the cursor of the view is never beyond the length of the selected
\* buffer, and no rope index of the view or of rendering is out of range.
C35_CursorInRange ==
    ed # NoResult => ed.cursor <= Len(Current(ed).contents) /\ ~ed.panicked

\* C38: jump_line_end puts the cursor on the last character of its line that
\* is not a line break, and never on another line.
C38_JumpLineEnd ==
    [][(MoveLineEnd /\ ed.cursor <= Len(Current(ed).contents)) =>
         LET rope == Current(ed).contents
         IN  /\ CharToLine(rope, ed'.cursor) = CharToLine(rope, ed.cursor)
             /\ ed'.cursor = LastCharOfLine(rope, ed.cursor)]_vars

\* C39: buffer-prev selects the previous buffer cyclically, which undoes
\* buffer-next.
C39_BufferPrevCyclic ==
    [][BufferPrev =>
         LET n == Len(ed.buffers)
         IN  /\ ed'.buffer_index = (ed.buffer_index + n - 1) % n
             /\ (ed'.buffer_index + 1) % n = ed.buffer_index]_vars

====
